---- MODULE Spec2Model ----
(***************************************************************************)
(* Announcement synchronisation of the Events Dashboard: the merge of a    *)
(* local and a cloud set (mergeAnnouncements), the background              *)
(* reconciliation (syncAnnouncementsFromCloud), the local save with its    *)
(* whole-document PUT (saveAnnouncements / saveToCloud) and the retry      *)
(* loops of the create, edit and delete handlers.                          *)
(*                                                                         *)
(* Times are integers in milliseconds.  A record is                        *)
(*   [id, text, endMs, createdAt, lastModified]                            *)
(* where endMs is the instant endDate + 'T' + endTime, and 0 stands for a  *)
(* missing (falsy) createdAt / lastModified / id and "" for an empty text. *)
(***************************************************************************)
EXTENDS Integers, Sequences, FiniteSets, TLC

\* ------------------------------------------------------------------ bounds
MaxLm == 2
MaxTotal == 3
MaxTicks == 2
MaxOps == 2
MaxRounds == 1

\* ------------------------------------------------------- program constants
HourMs == 3600000
RetentionHours == 24
GuardMs == 5000

\* Ids are strings in the program (generateId); "" stands for a missing id.
NoId == ""
Ids == {"a1", "a2"}

VARIABLES
    localAnnouncements,   \* mergeAnnouncements: first argument
    cloudAnnouncements,   \* mergeAnnouncements: second argument
    mergeNow,             \* new Date() inside mergeAnnouncements
    mergedAnnouncements,  \* the value mergeAnnouncements returned
    argsAfterMerge,       \* the two argument arrays as the call left them
    mergePhase            \* "input" before the call, "merged" after it

mergeVars == <<localAnnouncements, cloudAnnouncements, mergeNow,
               mergedAnnouncements, argsAfterMerge, mergePhase>>

VARIABLES
    clock,                \* Date.now(), the wall clock
    online,               \* whether the remote endpoint answers requests
    cloud,                \* the remote document's announcements array
    cloudSyncEnabled,     \* per client: this.cloudSyncEnabled
    announcements,        \* per client: this.announcements
    localStorage,         \* per client: localStorage['dashboard_announcements']
    syncInProgress,       \* per client: this.syncInProgress
    lastLocalSaveTime,    \* per client: this.lastLocalSaveTime (0: never set)
    lastSyncTime,         \* per client: this.lastSyncTime (0: never set)
    gets,                 \* per client: the GETs of loadFromCloud in flight
    puts,                 \* per client: the PUTs of saveToCloud in flight
    syncLog,              \* per client: how the last completed reconciliation ended
    callDropped,          \* per client: when a sync call last returned at its first line
    ops,                  \* per client: the user operations performed so far
    putLog,               \* the PUTs the endpoint has handled, in order
    crud                  \* the create / edit / delete handler the editor is running

clientVars == <<cloudSyncEnabled, announcements, localStorage, syncInProgress,
                lastLocalSaveTime, lastSyncTime, gets, puts, syncLog, callDropped, ops>>

sysVars == <<clock, online, cloud, clientVars, crud, putLog>>

VARIABLES
    response,             \* loadFromCloud: what its last fetch was answered with
    loadResult,           \* loadFromCloud: what its last call returned or threw
    stored,               \* loadAnnouncements: localStorage.getItem(...) as it finds it
    loadFetches,          \* the fetches loadAnnouncements and its retry have issued
    loadRetry,            \* the 2000 ms retry timer of loadAnnouncements
    syncTimers,           \* the timers startCloudSync has set
    startPhase            \* how far the start-up has come

startVars == <<response, loadResult, stored, loadFetches, loadRetry, syncTimers, startPhase>>

VARIABLES
    cloudSyncUrl,         \* per client: this.cloudSyncUrl, the document it reads and writes
    createdBins           \* the documents created by a POST to the bin service

binVars == <<cloudSyncUrl, createdBins>>

VARIABLES
    patchedMethods,       \* the methods of window.dashboard a loaded script has assigned
    scriptsRun            \* the scripts that have been loaded into the page

scriptVars == <<patchedMethods, scriptsRun>>

\* The variables of the functions exercised on their own.
funVars == <<mergeVars, startVars, binVars, scriptVars>>

vars == <<funVars, sysVars>>

Rec(i, t, e, c, m) ==
    [id |-> i, text |-> t, endMs |-> e, createdAt |-> c, lastModified |-> m]

\* ------------------------------------------------------- mergeAnnouncements

\* if (!ann.lastModified) ann.lastModified = ann.createdAt || new Date().toISOString()
BackFill(ann, now) ==
    IF ann.lastModified = 0
    THEN [ann EXCEPT !.lastModified = IF ann.createdAt # 0 THEN ann.createdAt ELSE now]
    ELSE ann

\* The Map keyed by id, kept as the sequence of its values in insertion order.
MapHas(map, id) == \E i \in 1..Len(map) : map[i].id = id

MapGet(map, id) == map[CHOOSE i \in 1..Len(map) : map[i].id = id]

\* A list that takes every record, whatever ids it already holds.
MapSetPush(map, ann) == Append(map, ann)

MapSet(map, ann) ==
    IF MapHas(map, ann.id)
    THEN [i \in 1..Len(map) |-> IF map[i].id = ann.id THEN ann ELSE map[i]]
    ELSE Append(map, ann)

\* this.announcements.findIndex(a => a.id === id) and .find(...)
FirstIndex(anns, id) ==
    CHOOSE i \in 1..Len(anns) :
        anns[i].id = id /\ \A j \in 1..(i - 1) : anns[j].id # id

TheRecord(anns, id) == anns[FirstIndex(anns, id)]

\* localAnnouncements.forEach: back-fill, then announcementMap.set(ann.id, ann)
RECURSIVE AddLocal(_, _, _)
AddLocal(map, anns, now) ==
    IF anns = <<>> THEN map
    ELSE AddLocal(MapSet(map, BackFill(Head(anns), now)), Tail(anns), now)

\* A merge in which the cloud version replaces the local one whatever their ages.
CloudAlwaysWins(cloudAnn, localAnn) == TRUE

\* A merge in which the cloud version also replaces the local one on a tie.
CloudNotOlder(cloudAnn, localAnn) == cloudAnn.lastModified >= localAnn.lastModified

\* cloudModified > localModified
CloudIsNewer(cloudAnn, localAnn) == cloudAnn.lastModified > localAnn.lastModified

\* A cloud loop that only updates the ids the local side already has.
AddCloudOneKnownIdsOnly(map, ann, now) ==
    IF ann.id # NoId /\ ann.text # "" /\ MapHas(map, ann.id)
          /\ CloudIsNewer(BackFill(ann, now), MapGet(map, ann.id))
    THEN MapSet(map, BackFill(ann, now))
    ELSE map

\* One cloud record: skipped unless it has an id and a text; added when its id
\* is new; replaces the entry only when it is newer.
AddCloudOne(map, ann, now) ==
    IF ann.id # NoId /\ ann.text # ""
    THEN LET a == BackFill(ann, now)
         IN IF ~MapHas(map, a.id) THEN MapSet(map, a)
            ELSE IF CloudIsNewer(a, MapGet(map, a.id)) THEN MapSet(map, a)
            ELSE map
    ELSE map

RECURSIVE AddCloud(_, _, _)
AddCloud(map, anns, now) ==
    IF anns = <<>> THEN map
    ELSE AddCloud(AddCloudOne(map, Head(anns), now), Tail(anns), now)

\* A merge in which kept records are those that ended up to 24 hours ago.
KeepUpTo24h(ann, now) == (now - ann.endMs) <= RetentionHours * HourMs

\* hoursSinceEnd < 24, with hoursSinceEnd = (now - endDate) / (1000 * 60 * 60)
KeepUnexpired(ann, now) == (now - ann.endMs) < RetentionHours * HourMs

mergeAnnouncements(localAnns, cloudAnns, now) ==
    SelectSeq(AddCloud(AddLocal(<<>>, localAnns, now), cloudAnns, now),
              LAMBDA ann : KeepUnexpired(ann, now))

\* The argument arrays after the call: the back-fill writes into the caller's
\* records (every local record, every cloud record that has an id and a text).
LocalAfterMerge(localAnns, now) ==
    [i \in 1..Len(localAnns) |-> BackFill(localAnns[i], now)]

CloudAfterMerge(cloudAnns, now) ==
    [i \in 1..Len(cloudAnns) |->
        IF cloudAnns[i].id # NoId /\ cloudAnns[i].text # ""
        THEN BackFill(cloudAnns[i], now) ELSE cloudAnns[i]]

\* ------------------------------------------------------------- loadFromCloud
\* The JSON values a response body can be, as far as loadFromCloud looks into
\* them: an array of records, an object with its record and announcements
\* properties (undefined when it has none), a string, null.
JUndefined == [kind |-> "undefined"]

JNull == [kind |-> "null"]

JString == [kind |-> "string"]

JArray(items) == [kind |-> "array", items |-> items]

JObject(record, anns) == [kind |-> "object", record |-> record, announcements |-> anns]

\* value.record and value.announcements: undefined on anything but an object
RecordOf(value) == IF value.kind = "object" THEN value.record ELSE JUndefined

AnnouncementsOf(value) == IF value.kind = "object" THEN value.announcements ELSE JUndefined

Truthy(value) == value.kind \notin {"undefined", "null"}

IsArray(value) == value.kind = "array"

\* What fetch and response.json() gave: the request failed, the status was not
\* 2xx, or a body came with a 2xx status.
Rejected == [status |-> "rejected", data |-> JUndefined]

NotOk == [status |-> "not ok", data |-> JUndefined]

Ok(data) == [status |-> "ok", data |-> data]

Returned(value) == [threw |-> FALSE, value |-> value]

Threw == [threw |-> TRUE, value |-> <<>>]

\* A loadFromCloud that takes any body for a set, an empty one when it finds no array.
loadFromCloudLenient(resp) ==
    IF resp.status # "ok" THEN Threw
    ELSE IF IsArray(AnnouncementsOf(RecordOf(resp.data)))
    THEN Returned(AnnouncementsOf(RecordOf(resp.data)).items)
    ELSE Returned(<<>>)

\* loadFromCloud after the fetch: throws when the fetch failed, when the status
\* is not 2xx and when the body (null included) has none of the four shapes.
loadFromCloud(resp) ==
    IF resp.status # "ok" \/ resp.data.kind \in {"null", "undefined"} THEN Threw
    ELSE LET data == resp.data
         IN IF /\ Truthy(RecordOf(data)) /\ Truthy(AnnouncementsOf(RecordOf(data)))
               /\ IsArray(AnnouncementsOf(RecordOf(data)))
            THEN Returned(AnnouncementsOf(RecordOf(data)).items)
            ELSE IF Truthy(RecordOf(data)) /\ IsArray(RecordOf(data))
            THEN Returned(RecordOf(data).items)
            ELSE IF IsArray(data)
            THEN Returned(data.items)
            ELSE IF Truthy(AnnouncementsOf(data)) /\ IsArray(AnnouncementsOf(data))
            THEN Returned(AnnouncementsOf(data).items)
            ELSE Threw

\* The body the endpoint answers a GET with: { record: <the document> }, the
\* document being the { announcements: [...] } of the last PUT.
Wrapped(anns) == JObject(JObject(JUndefined, JArray(anns)), JUndefined)

\* ------------------------------------------------------------ the clients
Clients == {"A", "B"}

SysIds == {"a1", "a2", "a3"}

\* a.id.localeCompare(b.id) on the ids in use
IdRank(id) == CASE id = "a1" -> 1 [] id = "a2" -> 2 [] id = "a3" -> 3 [] OTHER -> 0

\* array.sort((a,b) => a.id.localeCompare(b.id)): a stable sort by id
RECURSIVE InsertById(_, _)
InsertById(sorted, ann) ==
    IF sorted = <<>> THEN <<ann>>
    ELSE IF IdRank(ann.id) < IdRank(Head(sorted).id)
         THEN <<ann>> \o sorted
         ELSE <<Head(sorted)>> \o InsertById(Tail(sorted), ann)

RECURSIVE SortById(_)
SortById(anns) ==
    IF anns = <<>> THEN <<>>
    ELSE InsertById(SortById(SubSeq(anns, 1, Len(anns) - 1)), anns[Len(anns)])

TickMs == GuardMs
StartMs == GuardMs
MaxNow == StartMs + MaxTicks * TickMs

\* Records of the running system end far in the future.
FarEndMs == 100 * HourMs

\* generateId(): a fresh id, different for every creation
NewId(c) == IF c = "A" THEN "a2" ELSE "a3"

Holds(anns, id) == \E i \in 1..Len(anns) : anns[i].id = id

\* A submit that stamps createdAt anew on every edit.
SubmittedRecordStampedAnew(anns, editingId, c, t) ==
    [id |-> IF editingId # NoId THEN editingId ELSE NewId(c),
     text |-> c,
     endMs |-> FarEndMs,
     createdAt |-> t,
     lastModified |-> t]

\* handleAnnouncementSubmit: the record built from the form
SubmittedRecord(anns, editingId, c, t) ==
    [id |-> IF editingId # NoId THEN editingId ELSE NewId(c),
     text |-> c,
     endMs |-> FarEndMs,
     createdAt |-> IF editingId # NoId
                   THEN (IF Holds(anns, editingId) /\ TheRecord(anns, editingId).createdAt # 0
                         THEN TheRecord(anns, editingId).createdAt ELSE t)
                   ELSE t,
     lastModified |-> t]

\* handleAnnouncementSubmit: replace at the index of the edited id, or push
SubmitInto(anns, editingId, c, t) ==
    IF editingId # NoId
    THEN [i \in 1..Len(anns) |->
            IF i = FirstIndex(anns, editingId)
            THEN SubmittedRecord(anns, editingId, c, t) ELSE anns[i]]
    ELSE Append(anns, SubmittedRecord(anns, editingId, c, t))

\* deleteAnnouncement: this.announcements.filter(a => a.id !== id)
DeleteFrom(anns, id) == SelectSeq(anns, LAMBDA a : a.id # id)

GuardNeverHolds(t, lastSave) == FALSE

\* timeSinceLastLocalSave < 5000
WithinGuard(t, lastSave) == t - lastSave < GuardMs

\* A GET in flight; triggeredInGuard remembers whether the call that sent it
\* was made less than 5000 ms after lastLocalSaveTime, sawPuts how many PUTs
\* the endpoint had handled when the call was made, sawOps how many
\* operations the user had performed.
SentGet(c) == [st |-> "sent", data |-> JUndefined,
               by |-> "syncAnnouncementsFromCloud",
               triggeredInGuard |-> clock - lastLocalSaveTime[c] < GuardMs,
               sawPuts |-> Len(putLog),
               sawOps |-> Len(ops[c])]

\* A PUT in flight; op remembers which of the client's operations it carries.
SentPut(body, n) == [st |-> "sent", body |-> body, op |-> n]

\* The user's operation is recorded.
Did(c, kind, id) ==
    ops' = [ops EXCEPT ![c] = Append(@, [kind |-> kind, id |-> id])]

\* A save whose finally block runs although it did not set the flag.
ClearedBySkippedSave(flag) == FALSE

\* The finally block is inside the if: a save that sent nothing leaves the flag.
FlagAfterSkippedSave(flag) == flag

\* saveAnnouncements, up to the await of the PUT: stamp lastLocalSaveTime, write
\* localStorage, and unless a remote call is in progress set the flag and send
\* the whole set.
SaveAnnouncementsStart(c, anns) ==
    /\ announcements' = [announcements EXCEPT ![c] = anns]
    /\ lastLocalSaveTime' = [lastLocalSaveTime EXCEPT ![c] = clock]
    /\ localStorage' = [localStorage EXCEPT ![c] = anns]
    /\ IF cloudSyncEnabled[c] /\ ~syncInProgress[c]
       THEN /\ syncInProgress' = [syncInProgress EXCEPT ![c] = TRUE]
            /\ puts' = [puts EXCEPT ![c] = Append(@, SentPut(anns, Len(ops[c]) + 1))]
       ELSE /\ syncInProgress' = [syncInProgress EXCEPT ![c] = FlagAfterSkippedSave(@)]
            /\ UNCHANGED puts

\* The number of user operations performed on all clients together.
TotalOps == Len(ops["A"]) + Len(ops["B"])

CanOperate(c) == TotalOps < MaxOps /\ clock + GuardMs <= MaxNow

\* The user creates an announcement: push, then saveAnnouncements().
CreateThenSave(c) ==
    /\ CanOperate(c)
    /\ ~Holds(announcements[c], NewId(c))
    /\ SaveAnnouncementsStart(c, SubmitInto(announcements[c], NoId, c, clock))
    /\ Did(c, "create", NewId(c))
    /\ UNCHANGED <<funVars, crud, putLog, clock, online, cloud, cloudSyncEnabled, lastSyncTime, gets, syncLog, callDropped>>

\* The user edits an announcement: replace, then saveAnnouncements().
EditThenSave(c, id) ==
    /\ CanOperate(c)
    /\ Holds(announcements[c], id)
    /\ SaveAnnouncementsStart(c, SubmitInto(announcements[c], id, c, clock))
    /\ Did(c, "edit", id)
    /\ UNCHANGED <<funVars, crud, putLog, clock, online, cloud, cloudSyncEnabled, lastSyncTime, gets, syncLog, callDropped>>

\* The user deletes an announcement: filter, then saveAnnouncements().
DeleteThenSave(c, id) ==
    /\ CanOperate(c)
    /\ Holds(announcements[c], id)
    /\ SaveAnnouncementsStart(c, DeleteFrom(announcements[c], id))
    /\ Did(c, "delete", id)
    /\ UNCHANGED <<funVars, crud, putLog, clock, online, cloud, cloudSyncEnabled, lastSyncTime, gets, syncLog, callDropped>>

\* The endpoint handles a PUT: the document becomes the body.
PutServe(c) ==
    /\ online
    /\ puts[c] # <<>> /\ Head(puts[c]).st = "sent"
    /\ cloud' = Head(puts[c]).body
    /\ putLog' = Append(putLog, [by |-> c, op |-> Head(puts[c]).op])
    /\ puts' = [puts EXCEPT ![c] = <<[Head(@) EXCEPT !.st = "ok"]>> \o Tail(@)]
    /\ UNCHANGED <<funVars, crud, clock, online, cloudSyncEnabled, announcements, localStorage,
                   syncInProgress, lastLocalSaveTime, lastSyncTime, gets, syncLog, callDropped, ops>>

\* A PUT fails: the network is down, the request times out, or the answer is not 2xx.
PutFail(c) ==
    /\ puts[c] # <<>> /\ Head(puts[c]).st = "sent"
    /\ puts' = [puts EXCEPT ![c] = <<[Head(@) EXCEPT !.st = "err"]>> \o Tail(@)]
    /\ UNCHANGED <<funVars, crud, putLog, clock, online, cloud, cloudSyncEnabled, announcements, localStorage,
                   syncInProgress, lastLocalSaveTime, lastSyncTime, gets, syncLog, callDropped, ops>>

\* saveAnnouncements after the await: lastSyncTime on success, the warning on
\* failure, and in both cases the flag is cleared.
SaveAnnouncementsReturn(c) ==
    /\ puts[c] # <<>> /\ Head(puts[c]).st # "sent"
    /\ lastSyncTime' = [lastSyncTime EXCEPT ![c] = IF Head(puts[c]).st = "ok" THEN clock ELSE @]
    /\ syncInProgress' = [syncInProgress EXCEPT ![c] = FALSE]
    /\ puts' = [puts EXCEPT ![c] = Tail(@)]
    /\ UNCHANGED <<funVars, crud, putLog, clock, online, cloud, cloudSyncEnabled, announcements, localStorage,
                   lastLocalSaveTime, gets, syncLog, callDropped, ops>>

SyncRefusedOnlyWhenDisabled(c) == ~cloudSyncEnabled[c]

\* if (!this.cloudSyncEnabled || this.syncInProgress) return;
SyncRefused(c) == ~cloudSyncEnabled[c] \/ syncInProgress[c]

\* syncAnnouncementsFromCloud, up to the await of the GET: a call made while
\* sync is disabled or a remote call is in progress returns at once.
SyncCall(c) ==
    /\ IF SyncRefused(c)
       THEN /\ callDropped' = [callDropped EXCEPT ![c] =
                                    IF gets[c] # <<>> THEN "during sync"
                                    ELSE IF puts[c] # <<>> THEN "during save"
                                    ELSE "disabled"]
            /\ UNCHANGED <<syncInProgress, gets>>
       ELSE /\ syncInProgress' = [syncInProgress EXCEPT ![c] = TRUE]
            /\ gets' = [gets EXCEPT ![c] = Append(@, SentGet(c))]
            /\ UNCHANGED callDropped
    /\ UNCHANGED <<funVars, crud, putLog, clock, online, cloud, cloudSyncEnabled, announcements, localStorage,
                   lastLocalSaveTime, lastSyncTime, puts, syncLog, ops>>

\* The endpoint handles a GET: it answers with the document.
GetServe(c) ==
    /\ online
    /\ gets[c] # <<>> /\ Head(gets[c]).st = "sent"
    /\ gets' = [gets EXCEPT ![c] = <<[Head(@) EXCEPT !.st = "ok", !.data = Wrapped(cloud)]>> \o Tail(@)]
    /\ UNCHANGED <<funVars, crud, putLog, clock, online, cloud, cloudSyncEnabled, announcements, localStorage,
                   syncInProgress, lastLocalSaveTime, lastSyncTime, puts, syncLog, callDropped, ops>>

\* A GET fails: loadFromCloud throws.
GetFail(c) ==
    /\ gets[c] # <<>> /\ Head(gets[c]).st = "sent"
    /\ gets' = [gets EXCEPT ![c] = <<[Head(@) EXCEPT !.st = "err"]>> \o Tail(@)]
    /\ UNCHANGED <<funVars, crud, putLog, clock, online, cloud, cloudSyncEnabled, announcements, localStorage,
                   syncInProgress, lastLocalSaveTime, lastSyncTime, puts, syncLog, callDropped, ops>>

\* The answer to a GET as loadFromCloud sees it.
ResponseOf(get) == IF get.st = "ok" THEN Ok(get.data) ELSE Rejected

\* How a reconciliation ended, and for one that ran the merge how many PUTs
\* the endpoint had handled when it was called.
Logged(outcome, n) == [outcome |-> outcome, sawPuts |-> n, sawOps |-> 0, applied |-> FALSE]

\* A merge, with the number of operations the user had performed when the
\* call was made.
LoggedMerge(get) ==
    [outcome |-> "merged", sawPuts |-> get.sawPuts, sawOps |-> get.sawOps, applied |-> FALSE]

\* localStorage.setItem(...) and this.updateAnnouncementsDisplay() were called.
Applied(log) == [log EXCEPT !.applied = TRUE]

\* A reconciliation whose flag is reset at the end of the try block only.
StaysInProgressWhenThrown(threw) == threw

\* finally { this.syncInProgress = false; }
InProgressAfterSync(threw) == FALSE

\* A reconciliation that uploads the set it ends with.
DocumentPushedBySync(document, held) == held

\* syncAnnouncementsFromCloud makes no call of saveToCloud: the document stays.
DocumentAfterSync(document, held) == document

\* syncAnnouncementsFromCloud after the await.
SyncReturn(c) ==
    /\ gets[c] # <<>> /\ Head(gets[c]).st # "sent"
    /\ Head(gets[c]).by = "syncAnnouncementsFromCloud"
    /\ LET resp == Head(gets[c])
           cloudData == loadFromCloud(ResponseOf(resp))
           local == announcements[c]
           merged == SortById(mergeAnnouncements(local, cloudData.value, clock))
           sortedLocal == SortById(LocalAfterMerge(local, clock))
       IN IF cloudData.threw
          THEN /\ syncLog' = [syncLog EXCEPT ![c] =
                                Logged(IF resp.st = "ok" THEN "invalid format" ELSE "failed", 0)]
               /\ UNCHANGED <<announcements, localStorage, lastSyncTime>>
          ELSE IF WithinGuard(clock, lastLocalSaveTime[c])
          THEN /\ syncLog' = [syncLog EXCEPT ![c] = Logged("skipped", 0)]
               /\ lastSyncTime' = [lastSyncTime EXCEPT ![c] = clock]
               /\ UNCHANGED <<announcements, localStorage>>
          ELSE IF sortedLocal # merged
          THEN /\ syncLog' = [syncLog EXCEPT ![c] = Applied(LoggedMerge(resp))]
               /\ announcements' = [announcements EXCEPT ![c] = merged]
               /\ localStorage' = [localStorage EXCEPT ![c] = merged]
               /\ lastSyncTime' = [lastSyncTime EXCEPT ![c] = clock]
          ELSE /\ syncLog' = [syncLog EXCEPT ![c] = LoggedMerge(resp)]
               /\ announcements' = [announcements EXCEPT ![c] = sortedLocal]
               /\ lastSyncTime' = [lastSyncTime EXCEPT ![c] = clock]
               /\ UNCHANGED localStorage
    /\ syncInProgress' = [syncInProgress EXCEPT ![c] =
                              InProgressAfterSync(loadFromCloud(ResponseOf(Head(gets[c]))).threw)]
    /\ gets' = [gets EXCEPT ![c] = Tail(@)]
    /\ cloud' = DocumentAfterSync(cloud, announcements'[c])
    /\ UNCHANGED <<funVars, crud, putLog, clock, online, cloudSyncEnabled, lastLocalSaveTime, puts,
                   callDropped, ops>>

\* ---------------------------------------- direct_sync_fix.js enhancedSyncCheck
\* timeSinceLastLocalSave < 3000
EnhancedGuardMs == 3000

\* if (this.syncInProgress) return; otherwise the flag is set and the GET sent.
EnhancedSyncCall(c) ==
    /\ IF syncInProgress[c]
       THEN /\ callDropped' = [callDropped EXCEPT ![c] =
                                    IF gets[c] # <<>> THEN "during sync" ELSE "during save"]
            /\ UNCHANGED <<syncInProgress, gets>>
       ELSE /\ syncInProgress' = [syncInProgress EXCEPT ![c] = TRUE]
            /\ gets' = [gets EXCEPT ![c] = Append(@, [SentGet(c) EXCEPT !.by = "enhancedSyncCheck"])]
            /\ UNCHANGED callDropped
    /\ UNCHANGED <<funVars, crud, putLog, clock, online, cloud, cloudSyncEnabled, announcements, localStorage,
                   lastLocalSaveTime, lastSyncTime, puts, syncLog, ops>>

\* data.record?.announcements || []: a TypeError on a null body, the empty
\* array when the body has no record.announcements.
EnhancedCloudAnnouncements(data) ==
    IF data.kind \in {"null", "undefined"} THEN Threw
    ELSE IF Truthy(AnnouncementsOf(RecordOf(data)))
    THEN Returned(AnnouncementsOf(RecordOf(data)))
    ELSE Returned(JArray(<<>>))

\* enhancedSyncCheck after the await.  this.announcements is sorted in place
\* before the cloud array is; a cloud value that is no array then throws.
EnhancedSyncReturn(c) ==
    /\ gets[c] # <<>> /\ Head(gets[c]).st # "sent"
    /\ Head(gets[c]).by = "enhancedSyncCheck"
    /\ LET resp == Head(gets[c])
           found == EnhancedCloudAnnouncements(resp.data)
           sortedLocal == SortById(announcements[c])
           sortedCloud == SortById(found.value.items)
           merged == mergeAnnouncements(sortedLocal, sortedCloud, clock)
       IN IF resp.st = "err" \/ found.threw
          THEN /\ syncLog' = [syncLog EXCEPT ![c] = Logged("failed", 0)]
               /\ UNCHANGED <<announcements, localStorage>>
          ELSE IF ~IsArray(found.value)
          THEN /\ syncLog' = [syncLog EXCEPT ![c] = Logged("failed", 0)]
               /\ announcements' = [announcements EXCEPT ![c] = sortedLocal]
               /\ UNCHANGED localStorage
          ELSE IF sortedLocal = sortedCloud
          THEN /\ syncLog' = [syncLog EXCEPT ![c] = Logged("in sync", resp.sawPuts)]
               /\ announcements' = [announcements EXCEPT ![c] = sortedLocal]
               /\ UNCHANGED localStorage
          ELSE IF clock - lastLocalSaveTime[c] < EnhancedGuardMs
          THEN /\ syncLog' = [syncLog EXCEPT ![c] = Logged("skipped", 0)]
               /\ announcements' = [announcements EXCEPT ![c] = sortedLocal]
               /\ UNCHANGED localStorage
          ELSE /\ syncLog' = [syncLog EXCEPT ![c] = Applied(Logged("merged", resp.sawPuts))]
               /\ announcements' = [announcements EXCEPT ![c] = merged]
               /\ localStorage' = [localStorage EXCEPT ![c] = merged]
    /\ syncInProgress' = [syncInProgress EXCEPT ![c] = FALSE]
    /\ gets' = [gets EXCEPT ![c] = Tail(@)]
    /\ UNCHANGED <<funVars, crud, putLog, clock, online, cloud, cloudSyncEnabled, lastLocalSaveTime,
                   lastSyncTime, puts, callDropped, ops>>

\* The bodies an endpoint this system does not control may answer with: the
\* document as a bare array, as { announcements: [...] }, as { record: [...] },
\* an object with neither property, an object whose record.announcements is
\* no array, a string, null.
OtherBodies(anns) ==
    { JArray(anns),
      JObject(JUndefined, JArray(anns)),
      JObject(JArray(anns), JUndefined),
      JObject(JUndefined, JUndefined),
      JObject(JObject(JUndefined, JString), JUndefined),
      JString,
      JNull }

\* The endpoint answers a GET with a 2xx status and one of these bodies.
GetServeOther(c, body) ==
    /\ online
    /\ gets[c] # <<>> /\ Head(gets[c]).st = "sent"
    /\ body \in OtherBodies(cloud)
    /\ gets' = [gets EXCEPT ![c] = <<[Head(@) EXCEPT !.st = "ok", !.data = body]>> \o Tail(@)]
    /\ UNCHANGED <<funVars, crud, putLog, clock, online, cloud, cloudSyncEnabled, announcements, localStorage,
                   syncInProgress, lastLocalSaveTime, lastSyncTime, puts, syncLog, callDropped, ops>>

\* Time passes.
Tick ==
    /\ clock < MaxNow
    /\ clock' = clock + TickMs
    /\ UNCHANGED <<funVars, crud, putLog, online, cloud, clientVars>>

\* The network goes down, and comes back.
GoOffline ==
    /\ online
    /\ online' = FALSE
    /\ UNCHANGED <<funVars, crud, putLog, clock, cloud, clientVars>>

GoOnline ==
    /\ ~online
    /\ online' = TRUE
    /\ UNCHANGED <<funVars, crud, putLog, clock, cloud, clientVars>>

\* No handler with a retry loop is running.
\* The values of announcementText, startDate, startTime, endDate and endTime.
Form(text, startDate, startTime, endDate, endTime) ==
    [text |-> text, startDate |-> startDate, startTime |-> startTime,
     endDate |-> endDate, endTime |-> endTime]

NoForm == Form("", "", "", "", "")

CrudIdle ==
    [handler |-> "none", pc |-> "idle", kind |-> "none", id |-> NoId,
     retryCount |-> 0, roundPuts |-> 0, putCount |-> 0, rounds |-> 0,
     warned |-> FALSE, result |-> "none", form |-> NoForm]

\* The record both clients and the document start with.
BaseRecord == Rec("a1", "old", FarEndMs, 1, 1)

\* The state of the system part while only the merge is exercised.
SysIdle ==
    /\ clock = StartMs
    /\ online = TRUE
    /\ cloud = <<>>
    /\ cloudSyncEnabled = [c \in Clients |-> TRUE]
    /\ announcements = [c \in Clients |-> <<>>]
    /\ localStorage = [c \in Clients |-> <<>>]
    /\ syncInProgress = [c \in Clients |-> FALSE]
    /\ lastLocalSaveTime = [c \in Clients |-> 0]
    /\ lastSyncTime = [c \in Clients |-> 0]
    /\ gets = [c \in Clients |-> <<>>]
    /\ puts = [c \in Clients |-> <<>>]
    /\ syncLog = [c \in Clients |-> Logged("none", 0)]
    /\ callDropped = [c \in Clients |-> "never"]
    /\ ops = [c \in Clients |-> <<>>]
    /\ putLog = <<>>
    /\ crud = CrudIdle

StartIdle ==
    /\ response = Rejected
    /\ loadResult = Threw
    /\ stored = [kind |-> "null"]
    /\ loadFetches = 0
    /\ loadRetry = "none"
    /\ syncTimers = 0
    /\ startPhase = "running"

\* The URL of bin k's latest version; bin 0 is the document every client is
\* configured with.
LatestUrl(k) == [bin |-> k]

ConfiguredUrl == LatestUrl(0)

BinIdle ==
    /\ cloudSyncUrl = [c \in Clients |-> ConfiguredUrl]
    /\ createdBins = <<>>

ScriptIdle ==
    /\ patchedMethods = {}
    /\ scriptsRun = {}

MergeIdle ==
    /\ localAnnouncements = <<>>
    /\ cloudAnnouncements = <<>>
    /\ mergeNow = 0
    /\ mergedAnnouncements = <<>>
    /\ argsAfterMerge = <<>>
    /\ mergePhase = "input"

\* Two clients in sync with the document, each loaded with the base record.
Init ==
    /\ MergeIdle
    /\ BinIdle
    /\ ScriptIdle
    /\ StartIdle
    /\ clock = StartMs
    /\ online = TRUE
    /\ cloud = <<BaseRecord>>
    /\ cloudSyncEnabled = [c \in Clients |-> TRUE]
    /\ announcements = [c \in Clients |-> <<BaseRecord>>]
    /\ localStorage = [c \in Clients |-> <<BaseRecord>>]
    /\ syncInProgress = [c \in Clients |-> FALSE]
    /\ lastLocalSaveTime = [c \in Clients |-> 0]
    /\ lastSyncTime = [c \in Clients |-> 0]
    /\ gets = [c \in Clients |-> <<>>]
    /\ puts = [c \in Clients |-> <<>>]
    /\ syncLog = [c \in Clients |-> Logged("none", 0)]
    /\ callDropped = [c \in Clients |-> "never"]
    /\ ops = [c \in Clients |-> <<>>]
    /\ putLog = <<>>
    /\ crud = CrudIdle

\* Another client of the same document overwrites it: with its edit of the
\* base record, with an announcement of its own added, or with a record removed.
OtherClientPut ==
    /\ online
    /\ TotalOps < MaxOps
    /\ \/ /\ Holds(cloud, "a1")
          /\ cloud' = SubmitInto(cloud, "a1", "B", clock)
          /\ Did("B", "edit", "a1")
       \/ /\ ~Holds(cloud, NewId("B"))
          /\ cloud' = SubmitInto(cloud, NoId, "B", clock)
          /\ Did("B", "create", NewId("B"))
       \/ \E id \in SysIds :
             /\ Holds(cloud, id)
             /\ cloud' = DeleteFrom(cloud, id)
             /\ Did("B", "delete", id)
    /\ putLog' = Append(putLog, [by |-> "B", op |-> Len(ops["B"]) + 1])
    /\ UNCHANGED <<funVars, crud, clock, online, cloudSyncEnabled, announcements, localStorage,
                   syncInProgress, lastLocalSaveTime, lastSyncTime, gets, puts, syncLog,
                   callDropped>>

\* The user creates, edits or deletes.
UserStep(c) ==
    \/ CreateThenSave(c)
    \/ \E id \in SysIds : EditThenSave(c, id)
    \/ \E id \in SysIds : DeleteThenSave(c, id)

\* A request of the client is answered and the function that awaits it goes on.
AnsweredStep(c) ==
    \/ PutServe(c)
    \/ SaveAnnouncementsReturn(c)
    \/ GetServe(c)
    \/ SyncReturn(c)

ClientStep(c) ==
    \/ UserStep(c)
    \/ SyncCall(c)
    \/ AnsweredStep(c)
    \/ PutFail(c)
    \/ GetFail(c)

\* One client, the network, and the other clients seen through the document.
Next ==
    \/ ClientStep("A")
    \/ OtherClientPut
    \/ Tick

Spec == Init /\ [][Next]_vars

\* Another client whose device clock is one tick behind this one's edits a
\* record of the document: its new Date() gives clock - TickMs.
OtherClientPutBehind ==
    /\ online
    /\ TotalOps < MaxOps
    /\ clock - TickMs > 0
    /\ \E id \in SysIds :
          /\ Holds(cloud, id)
          /\ cloud' = SubmitInto(cloud, id, "B", clock - TickMs)
          /\ Did("B", "edit", id)
    /\ putLog' = Append(putLog, [by |-> "B", op |-> Len(ops["B"]) + 1])
    /\ UNCHANGED <<funVars, crud, clock, online, cloudSyncEnabled, announcements, localStorage,
                   syncInProgress, lastLocalSaveTime, lastSyncTime, gets, puts, syncLog,
                   callDropped>>

\* One client and another one on a device whose clock runs behind.
SkewNext ==
    \/ ops["A"] = <<>> /\ UserStep("A")
    \/ ~SyncRefused("A") /\ SyncCall("A")
    \/ AnsweredStep("A")
    \/ OtherClientPutBehind
    \/ Tick

SkewSpec == Init /\ [][SkewNext]_vars

\* ------------------------------------ fix_announcement_sync.js saveToCloud
\* The document behind a client's URL.
DocumentAt(url) == IF url = ConfiguredUrl THEN cloud ELSE createdBins[url.bin]

\* The PUT to this.cloudSyncUrl.replace('/latest', '') is answered with 2xx.
BinPutServe(c) ==
    /\ online
    /\ puts[c] # <<>> /\ Head(puts[c]).st = "sent"
    /\ IF cloudSyncUrl[c] = ConfiguredUrl
       THEN /\ cloud' = Head(puts[c]).body
            /\ UNCHANGED createdBins
       ELSE /\ createdBins' = [createdBins EXCEPT ![cloudSyncUrl[c].bin] = Head(puts[c]).body]
            /\ UNCHANGED cloud
    /\ putLog' = Append(putLog, [by |-> c, op |-> Head(puts[c]).op])
    /\ puts' = [puts EXCEPT ![c] = <<[Head(@) EXCEPT !.st = "ok"]>> \o Tail(@)]
    /\ UNCHANGED <<mergeVars, startVars, scriptVars, cloudSyncUrl, crud, clock, online, cloudSyncEnabled,
                   announcements, localStorage, syncInProgress, lastLocalSaveTime, lastSyncTime,
                   gets, syncLog, callDropped, ops>>

\* if (!response.ok): the PUT is answered with another status, and the POST
\* to https://api.jsonbin.io/v3/b is sent with the same payload.
PutRejected(c) ==
    /\ online
    /\ puts[c] # <<>> /\ Head(puts[c]).st = "sent"
    /\ puts' = [puts EXCEPT ![c] = <<[Head(@) EXCEPT !.st = "rejected"]>> \o Tail(@)]
    /\ UNCHANGED <<funVars, crud, putLog, clock, online, cloud, cloudSyncEnabled, announcements,
                   localStorage, syncInProgress, lastLocalSaveTime, lastSyncTime, gets, syncLog,
                   callDropped, ops>>

\* createResponse.ok: a new public bin holds the payload and this.cloudSyncUrl
\* is set to it.
PostServe(c) ==
    /\ online
    /\ puts[c] # <<>> /\ Head(puts[c]).st = "rejected"
    /\ createdBins' = Append(createdBins, Head(puts[c]).body)
    /\ cloudSyncUrl' = [cloudSyncUrl EXCEPT ![c] = LatestUrl(Len(createdBins) + 1)]
    /\ puts' = [puts EXCEPT ![c] = <<[Head(@) EXCEPT !.st = "ok"]>> \o Tail(@)]
    /\ UNCHANGED <<mergeVars, startVars, scriptVars, crud, putLog, clock, online, cloud,
                   cloudSyncEnabled, announcements, localStorage, syncInProgress,
                   lastLocalSaveTime, lastSyncTime, gets, syncLog, callDropped, ops>>

\* The POST fails or is answered with another status: saveToCloud throws.
PostFail(c) ==
    /\ puts[c] # <<>> /\ Head(puts[c]).st = "rejected"
    /\ puts' = [puts EXCEPT ![c] = <<[Head(@) EXCEPT !.st = "err"]>> \o Tail(@)]
    /\ UNCHANGED <<funVars, crud, putLog, clock, online, cloud, cloudSyncEnabled, announcements,
                   localStorage, syncInProgress, lastLocalSaveTime, lastSyncTime, gets, syncLog,
                   callDropped, ops>>

\* saveAnnouncements goes on once saveToCloud has returned or thrown.
BinSaveReturn(c) ==
    /\ puts[c] # <<>> /\ Head(puts[c]).st \in {"ok", "err"}
    /\ SaveAnnouncementsReturn(c)

\* The endpoint answers a GET with the document behind the client's URL.
BinGetServe(c) ==
    /\ online
    /\ gets[c] # <<>> /\ Head(gets[c]).st = "sent"
    /\ gets' = [gets EXCEPT ![c] =
                  <<[Head(@) EXCEPT !.st = "ok", !.data = Wrapped(DocumentAt(cloudSyncUrl[c]))]>>
                  \o Tail(@)]
    /\ UNCHANGED <<funVars, crud, putLog, clock, online, cloud, cloudSyncEnabled, announcements,
                   localStorage, syncInProgress, lastLocalSaveTime, lastSyncTime, puts, syncLog,
                   callDropped, ops>>

\* One client running fix_announcement_sync.js against a bin service that may
\* answer a PUT with an error status.
BinNext ==
    \/ UserStep("A")
    \/ BinPutServe("A")
    \/ PutRejected("A")
    \/ PutFail("A")
    \/ PostServe("A")
    \/ PostFail("A")
    \/ BinSaveReturn("A")
    \/ ~SyncRefused("A") /\ SyncCall("A")
    \/ BinGetServe("A")
    \/ GetFail("A")
    \/ SyncReturn("A")
    \/ Tick

BinSpec == Init /\ [][BinNext]_vars

\* Two clients of one document that answers every request; each user performs
\* one operation, and the sync calls that return at their first line are left out.
TwoNext ==
    \/ \E c \in Clients : ops[c] = <<>> /\ UserStep(c)
    \/ \E c \in Clients : ~SyncRefused(c) /\ SyncCall(c)
    \/ \E c \in Clients : AnsweredStep(c)
    \/ Tick

TwoSpec == Init /\ [][TwoNext]_vars

\* One client whose user performs one operation, over a network that goes
\* down and comes back and an endpoint that may fail.
LiveNext ==
    \/ ops["A"] = <<>> /\ UserStep("A")
    \/ ~SyncRefused("A") /\ SyncCall("A")
    \/ AnsweredStep("A")
    \/ PutFail("A")
    \/ GetFail("A")
    \/ GoOffline
    \/ GoOnline
    \/ Tick

\* The sync timer keeps firing, awaited calls go on once answered, the network
\* comes back, and a request that is sent again and again is answered in the end.
LiveSpec ==
    /\ Init /\ [][LiveNext]_vars
    /\ WF_vars(~SyncRefused("A") /\ SyncCall("A"))
    /\ WF_vars(SyncReturn("A"))
    /\ WF_vars(SaveAnnouncementsReturn("A"))
    /\ WF_vars(GoOnline)
    /\ WF_vars(Tick)
    /\ SF_vars(GetServe("A"))
    /\ SF_vars(PutServe("A"))

\* One client on a network that owes no answer: a fetch stays pending for as
\* long as nothing answers it. What the client does by itself does happen:
\* an awaited call goes on once it is answered.
HangNext ==
    \/ ops["A"] = <<>> /\ UserStep("A")
    \/ ~SyncRefused("A") /\ SyncCall("A")
    \/ AnsweredStep("A")
    \/ PutFail("A")
    \/ GetFail("A")

HangSpec ==
    /\ Init /\ [][HangNext]_vars
    /\ WF_vars(SyncReturn("A"))
    /\ WF_vars(SaveAnnouncementsReturn("A"))

\* An announcement that ended more than 24 hours ago and is still held.
OldRecord == Rec("a0", "ended", StartMs - 25 * HourMs, 1, 1)

SyncInit ==
    /\ MergeIdle
    /\ BinIdle
    /\ ScriptIdle
    /\ StartIdle
    /\ clock = StartMs
    /\ online = TRUE
    /\ cloud = <<OldRecord, BaseRecord>>
    /\ cloudSyncEnabled = [c \in Clients |-> TRUE]
    /\ announcements = [c \in Clients |-> <<OldRecord, BaseRecord>>]
    /\ localStorage = [c \in Clients |-> <<OldRecord, BaseRecord>>]
    /\ syncInProgress = [c \in Clients |-> FALSE]
    /\ lastLocalSaveTime = [c \in Clients |-> 0]
    /\ lastSyncTime = [c \in Clients |-> 0]
    /\ gets = [c \in Clients |-> <<>>]
    /\ puts = [c \in Clients |-> <<>>]
    /\ syncLog = [c \in Clients |-> Logged("none", 0)]
    /\ callDropped = [c \in Clients |-> "never"]
    /\ ops = [c \in Clients |-> <<>>]
    /\ putLog = <<>>
    /\ crud = CrudIdle

\* The fetch of a reconciliation settles: answered by the endpoint or failed.
FetchSettles(c) ==
    \/ GetServe(c)
    \/ \E body \in OtherBodies(cloud) : GetServeOther(c, body)
    \/ GetFail(c)

\* One client reconciling, by syncAnnouncementsFromCloud or by
\* enhancedSyncCheck, against an endpoint that answers in any shape or fails;
\* its user performs one operation.
SyncNext ==
    \/ ops["A"] = <<>> /\ UserStep("A")
    \/ ~SyncRefused("A") /\ SyncCall("A")
    \/ ~syncInProgress["A"] /\ EnhancedSyncCall("A")
    \/ FetchSettles("A")
    \/ SyncReturn("A")
    \/ EnhancedSyncReturn("A")
    \/ PutServe("A")
    \/ PutFail("A")
    \/ SaveAnnouncementsReturn("A")
    \/ Tick

SyncSpec == SyncInit /\ [][SyncNext]_vars

\* ----------------------------------------------------------- the start-up
\* What localStorage.getItem('dashboard_announcements') can give: null when
\* nothing was written, a string JSON.parse throws on, or a set as written.
NothingStored == [kind |-> "null"]

Corrupt == [kind |-> "corrupt"]

Json(anns) == [kind |-> "json", value |-> anns]

\* An announcement of another client.
OtherRecord == Rec(NewId("B"), "B", FarEndMs, 2, 2)

StoredSets == { <<>>, <<BaseRecord>>, <<OldRecord, BaseRecord>> }

CloudDocs == { <<>>, <<BaseRecord>>, <<BaseRecord, OtherRecord>> }

\* What a fetch of the document can be answered with.
Responses(anns) ==
    {Rejected, NotOk, Ok(Wrapped(anns))} \cup { Ok(body) : body \in OtherBodies(anns) }

\* JSON.parse(stored)
JSONparse(item) == IF item.kind = "json" THEN Returned(item.value) ELSE Threw

\* stored ? JSON.parse(stored) : []
FromLocalStorage(item) == IF item.kind = "null" THEN Returned(<<>>) ELSE JSONparse(item)

\* A loadAnnouncements without its outer try: what is thrown goes to the caller.
Uncaught(result) == result

\* catch (error) { this.announcements = []; }
CaughtAsEmpty(result) == IF result.threw THEN Returned(<<>>) ELSE result

SetStarted(phase) == startPhase' = phase

\* loadAnnouncements: the cloud first when sync is enabled, localStorage when
\* the cloud is not used or failed, the retry timer when that left nothing.
LoadAnnouncements(resp) ==
    /\ startPhase = "constructed"
    /\ resp \in Responses(cloud)
    /\ LET fromCloud == loadFromCloud(resp)
           local == CaughtAsEmpty(FromLocalStorage(stored))
       IN IF cloudSyncEnabled["A"]
          THEN /\ response' = resp
               /\ loadResult' = fromCloud
               /\ loadFetches' = loadFetches + 1
               /\ IF ~fromCloud.threw
                  THEN /\ announcements' = [announcements EXCEPT !["A"] = fromCloud.value]
                       /\ localStorage' = [localStorage EXCEPT !["A"] = fromCloud.value]
                       /\ stored' = Json(fromCloud.value)
                       /\ SetStarted("loaded")
                       /\ UNCHANGED loadRetry
                  ELSE /\ SetStarted(IF local.threw THEN "threw" ELSE "loaded")
                       /\ announcements' = [announcements EXCEPT !["A"] = local.value]
                       /\ loadRetry' = IF stored.kind # "corrupt" /\ local.value = <<>>
                                       THEN "pending" ELSE "none"
                       /\ UNCHANGED <<localStorage, stored>>
          ELSE /\ SetStarted(IF local.threw THEN "threw" ELSE "loaded")
               /\ announcements' = [announcements EXCEPT !["A"] = local.value]
               /\ UNCHANGED <<response, loadResult, loadFetches, localStorage, stored, loadRetry>>
    /\ UNCHANGED <<mergeVars, binVars, scriptVars, syncTimers, crud, putLog, clock, online, cloud, cloudSyncEnabled,
                   syncInProgress, lastLocalSaveTime, lastSyncTime, gets, puts, syncLog,
                   callDropped, ops>>

\* The retry set by loadAnnouncements fires: loadFromCloud once more, and its
\* set is taken when it is not empty.
LoadRetry(resp) ==
    /\ loadRetry = "pending"
    /\ resp \in Responses(cloud)
    /\ response' = resp
    /\ loadResult' = loadFromCloud(resp)
    /\ loadFetches' = loadFetches + 1
    /\ loadRetry' = "done"
    /\ IF ~loadFromCloud(resp).threw /\ loadFromCloud(resp).value # <<>>
       THEN /\ announcements' = [announcements EXCEPT !["A"] = loadFromCloud(resp).value]
            /\ localStorage' = [localStorage EXCEPT !["A"] = loadFromCloud(resp).value]
            /\ stored' = Json(loadFromCloud(resp).value)
       ELSE UNCHANGED <<announcements, localStorage, stored>>
    /\ UNCHANGED <<mergeVars, binVars, scriptVars, syncTimers, startPhase, crud, putLog, clock, online, cloud,
                   cloudSyncEnabled, syncInProgress, lastLocalSaveTime, lastSyncTime, gets,
                   puts, syncLog, callDropped, ops>>

\* A startCloudSync that sets its timers whatever the configuration.
TimersSetAlways(enabled) == 2

\* if (!this.cloudSyncEnabled) return; then setInterval and setTimeout
TimersSet(enabled) == IF enabled THEN 2 ELSE 0

startCloudSync ==
    /\ startPhase = "loaded"
    /\ syncTimers' = TimersSet(cloudSyncEnabled["A"])
    /\ SetStarted("started")
    /\ UNCHANGED <<mergeVars, binVars, scriptVars, response, loadResult, stored, loadFetches, loadRetry, sysVars>>

StartInit ==
    /\ MergeIdle
    /\ BinIdle
    /\ ScriptIdle
    /\ response = Rejected
    /\ loadResult = Threw
    /\ stored \in {NothingStored, Corrupt} \cup { Json(anns) : anns \in StoredSets }
    /\ loadFetches = 0
    /\ loadRetry = "none"
    /\ syncTimers = 0
    /\ startPhase = "constructed"
    /\ clock = StartMs
    /\ online = TRUE
    /\ cloud \in CloudDocs
    /\ \E enabled \in BOOLEAN : cloudSyncEnabled = [c \in Clients |-> enabled]
    /\ announcements = [c \in Clients |-> <<>>]
    /\ localStorage = [c \in Clients |-> IF stored.kind = "json" THEN stored.value ELSE <<>>]
    /\ syncInProgress = [c \in Clients |-> FALSE]
    /\ lastLocalSaveTime = [c \in Clients |-> 0]
    /\ lastSyncTime = [c \in Clients |-> 0]
    /\ gets = [c \in Clients |-> <<>>]
    /\ puts = [c \in Clients |-> <<>>]
    /\ syncLog = [c \in Clients |-> Logged("none", 0)]
    /\ callDropped = [c \in Clients |-> "never"]
    /\ ops = [c \in Clients |-> <<>>]
    /\ putLog = <<>>
    /\ crud = CrudIdle

\* The dashboard starts: loadAnnouncements, then startCloudSync; after that the
\* timers fire, syncAnnouncementsFromCloud is called, and the user performs
\* one operation.
StartNext ==
    \/ \E resp \in Responses(cloud) : LoadAnnouncements(resp)
    \/ \E resp \in Responses(cloud) : LoadRetry(resp)
    \/ startCloudSync
    \/ startPhase = "started" /\ ops["A"] = <<>> /\ UserStep("A")
    \/ startPhase = "started" /\ SyncCall("A")
    \/ AnsweredStep("A")
    \/ GetFail("A")
    \/ PutFail("A")

StartSpec == StartInit /\ [][StartNext]_vars

\* ------------------------------------------- the handlers with retry loops
\* The client whose user creates, edits and deletes.
Editor == "A"

\* const maxRetries = 3;
MaxRetries == 3

crudFixed == <<funVars, putLog, clock, online, cloud, cloudSyncEnabled, syncInProgress,
               gets, syncLog, callDropped>>

CanStart ==
    /\ crud.pc \in {"idle", "done"}
    /\ TotalOps < MaxOps
    /\ puts[Editor] = <<>>

\* What the form or the delete button is used on.
OpAllowed(kind, id) ==
    IF kind = "create"
    THEN id = NewId(Editor) /\ ~Holds(announcements[Editor], id)
    ELSE Holds(announcements[Editor], id)

\* this.announcements after the handler's push, replace or filter
AfterOp(kind, id) ==
    IF kind = "delete"
    THEN DeleteFrom(announcements[Editor], id)
    ELSE SubmitInto(announcements[Editor], IF kind = "edit" THEN id ELSE NoId, Editor, clock)

\* The handler has sent its first PUT.
FirstAttempt(h, kind, id) ==
    [CrudIdle EXCEPT !.handler = h, !.pc = "put", !.kind = kind, !.id = id,
                     !.roundPuts = 1, !.putCount = 1]

\* The handler ended without a remote write because cloud sync is off.
LocalOnly(h, kind, id) ==
    [CrudIdle EXCEPT !.handler = h, !.pc = "done", !.kind = kind, !.id = id,
                     !.result = "local only"]

SendPut(body, n) == puts' = [puts EXCEPT ![Editor] = Append(@, SentPut(body, n))]

Answered(h) ==
    /\ crud.handler = h /\ crud.pc = "put"
    /\ puts[Editor] # <<>> /\ Head(puts[Editor]).st # "sent"

AnswerTaken == puts' = [puts EXCEPT ![Editor] = Tail(@)]

RetryWithoutBound(warnsUser, atEnd) ==
    [crud EXCEPT !.retryCount = @ + 1, !.pc = "backoff"]

\* catch: retryCount++, then the backoff while retryCount < maxRetries
FailedAttempt(warnsUser, atEnd) ==
    IF crud.retryCount + 1 < MaxRetries
    THEN [crud EXCEPT !.retryCount = @ + 1, !.pc = "backoff"]
    ELSE [crud EXCEPT !.retryCount = @ + 1, !.pc = atEnd, !.warned = warnsUser,
                      !.result = "failed"]

\* What the user can have in the form: a date and two times of day that
\* new Date(date + 'T' + time) parses, a string it does not parse, and nothing.
AnyDate == "2025-01-01"

Morning == "09:00"

Noon == "12:00"

Garbage == "x"

Missing == ""

Blank == " "

FineForm == Form("A", AnyDate, Morning, AnyDate, Noon)

Forms ==
    { FineForm,
      [FineForm EXCEPT !.text = Missing],
      [FineForm EXCEPT !.text = Blank],
      [FineForm EXCEPT !.startDate = Missing],
      [FineForm EXCEPT !.startTime = Missing],
      [FineForm EXCEPT !.endDate = Missing],
      [FineForm EXCEPT !.endTime = Missing],
      [FineForm EXCEPT !.startDate = Garbage],
      [FineForm EXCEPT !.startTime = Garbage],
      [FineForm EXCEPT !.endDate = Garbage],
      [FineForm EXCEPT !.endTime = Garbage],
      [FineForm EXCEPT !.endTime = Morning],
      [FineForm EXCEPT !.startTime = Noon, !.endTime = Morning] }

\* .value.trim()
Trim(text) == IF text = Blank THEN "" ELSE text

InvalidDate == [nan |-> TRUE, ms |-> 0]

\* new Date(date + 'T' + time): Invalid Date for a string that does not parse
NewDate(date, time) ==
    IF date = AnyDate /\ time \in {Morning, Noon}
    THEN [nan |-> FALSE, ms |-> FarEndMs + (IF time = Noon THEN 3 * HourMs ELSE 0)]
    ELSE InvalidDate

\* end <= start on two Dates: false as soon as one is Invalid Date
DateLeq(a, b) == ~a.nan /\ ~b.nan /\ a.ms <= b.ms

\* handleAnnouncementSubmit returns after an alert: a field is empty, or
\* end <= start.
FormRejected(form) ==
    \/ Trim(form.text) = ""
    \/ form.startDate = "" \/ form.startTime = "" \/ form.endDate = "" \/ form.endTime = ""
    \/ DateLeq(NewDate(form.endDate, form.endTime), NewDate(form.startDate, form.startTime))

\* The handler returned from its validation.
RejectedSubmit(h, form, kind, id) ==
    [CrudIdle EXCEPT !.handler = h, !.pc = "done", !.kind = kind, !.id = id,
                     !.result = "rejected", !.form = form]

\* direct_sync_fix.js handleAnnouncementSubmit, up to the first await: the
\* validation, then the record is put in the array, localStorage is written,
\* the PUT is sent.
DirectSubmit(form, kind, id) ==
    /\ CanStart /\ kind \in {"create", "edit"} /\ OpAllowed(kind, id)
    /\ IF FormRejected(form)
       THEN /\ crud' = RejectedSubmit("direct", form, kind, id)
            /\ UNCHANGED <<announcements, localStorage, puts, ops>>
       ELSE /\ announcements' = [announcements EXCEPT ![Editor] = AfterOp(kind, id)]
            /\ localStorage' = [localStorage EXCEPT ![Editor] = AfterOp(kind, id)]
            /\ SendPut(AfterOp(kind, id), Len(ops[Editor]) + 1)
            /\ crud' = [FirstAttempt("direct", kind, id) EXCEPT !.form = form]
            /\ Did(Editor, kind, id)
    /\ UNCHANGED <<crudFixed, lastLocalSaveTime, lastSyncTime>>

\* direct_sync_fix.js deleteAnnouncement after the user confirmed, up to the
\* first await.
DirectDelete(id) ==
    /\ CanStart /\ OpAllowed("delete", id)
    /\ announcements' = [announcements EXCEPT ![Editor] = AfterOp("delete", id)]
    /\ localStorage' = [localStorage EXCEPT ![Editor] = AfterOp("delete", id)]
    /\ SendPut(AfterOp("delete", id), Len(ops[Editor]) + 1)
    /\ crud' = FirstAttempt("direct", "delete", id)
    /\ Did(Editor, "delete", id)
    /\ UNCHANGED <<crudFixed, lastLocalSaveTime, lastSyncTime>>

\* direct_sync_fix.js: saveToCloudImmediate returns or throws inside the loop;
\* after the last failure the alert is shown.
DirectAttemptReturn ==
    /\ Answered("direct")
    /\ AnswerTaken
    /\ IF Head(puts[Editor]).st = "ok"
       THEN /\ lastLocalSaveTime' = [lastLocalSaveTime EXCEPT ![Editor] = clock]
            /\ crud' = [crud EXCEPT !.pc = "done", !.result = "synced"]
       ELSE /\ crud' = FailedAttempt(TRUE, "done")
            /\ UNCHANGED lastLocalSaveTime
    /\ UNCHANGED <<crudFixed, announcements, localStorage, lastSyncTime, ops>>

\* cloud_sync_fix.js saveAnnouncements, called by the handler that changed the
\* array, up to the first await.
EnhancedSave(kind, id) ==
    /\ CanStart /\ OpAllowed(kind, id)
    /\ announcements' = [announcements EXCEPT ![Editor] = AfterOp(kind, id)]
    /\ lastLocalSaveTime' = [lastLocalSaveTime EXCEPT ![Editor] = clock]
    /\ localStorage' = [localStorage EXCEPT ![Editor] = AfterOp(kind, id)]
    /\ IF cloudSyncEnabled[Editor]
       THEN /\ SendPut(AfterOp(kind, id), Len(ops[Editor]) + 1)
            /\ crud' = FirstAttempt("enhancedSave", kind, id)
       ELSE /\ crud' = LocalOnly("enhancedSave", kind, id)
            /\ UNCHANGED puts
    /\ Did(Editor, kind, id)
    /\ UNCHANGED <<crudFixed, lastSyncTime>>

\* cloud_sync_fix.js saveAnnouncements: saveToCloud returns or throws inside
\* the loop; the last failure is written to the console only.
EnhancedSaveAttemptReturn ==
    /\ Answered("enhancedSave")
    /\ AnswerTaken
    /\ IF Head(puts[Editor]).st = "ok"
       THEN /\ lastSyncTime' = [lastSyncTime EXCEPT ![Editor] = clock]
            /\ crud' = [crud EXCEPT !.pc = "done", !.result = "synced"]
       ELSE /\ crud' = FailedAttempt(FALSE, "done")
            /\ UNCHANGED lastSyncTime
    /\ UNCHANGED <<crudFixed, announcements, localStorage, lastLocalSaveTime, ops>>

\* fix_creation_sync handleAnnouncementSubmit, up to the first await:
\* localStorage is not written before the PUT.
CreationSubmit(form, kind, id) ==
    /\ CanStart /\ kind \in {"create", "edit"} /\ OpAllowed(kind, id)
    /\ IF FormRejected(form)
       THEN /\ crud' = RejectedSubmit("creation", form, kind, id)
            /\ UNCHANGED <<announcements, localStorage, puts, ops>>
       ELSE /\ announcements' = [announcements EXCEPT ![Editor] = AfterOp(kind, id)]
            /\ IF cloudSyncEnabled[Editor]
               THEN /\ SendPut(AfterOp(kind, id), Len(ops[Editor]) + 1)
                    /\ crud' = [FirstAttempt("creation", kind, id) EXCEPT !.form = form]
                    /\ UNCHANGED localStorage
               ELSE /\ localStorage' = [localStorage EXCEPT ![Editor] = AfterOp(kind, id)]
                    /\ crud' = [LocalOnly("creation", kind, id) EXCEPT !.form = form]
                    /\ UNCHANGED puts
            /\ Did(Editor, kind, id)
    /\ UNCHANGED <<crudFixed, lastLocalSaveTime, lastSyncTime>>

\* fix_creation_sync: the fetch answers inside the loop; success writes
\* localStorage, the last failure opens the confirm dialog.
CreationAttemptReturn ==
    /\ Answered("creation")
    /\ AnswerTaken
    /\ IF Head(puts[Editor]).st = "ok"
       THEN /\ localStorage' = [localStorage EXCEPT ![Editor] = announcements[Editor]]
            /\ crud' = [crud EXCEPT !.pc = "done", !.result = "synced"]
       ELSE /\ crud' = FailedAttempt(TRUE, "confirm")
            /\ UNCHANGED localStorage
    /\ UNCHANGED <<crudFixed, announcements, lastLocalSaveTime, lastSyncTime, ops>>

\* fix_creation_sync: the user answers "Would you like to try again?".  Yes
\* resets retryCount and continues the loop, no writes localStorage and ends.
CreationConfirmAnswer(again) ==
    /\ crud.handler = "creation" /\ crud.pc = "confirm"
    /\ IF again
       THEN /\ crud.rounds < MaxRounds
            /\ SendPut(announcements[Editor], Len(ops[Editor]))
            /\ crud' = [crud EXCEPT !.pc = "put", !.retryCount = 0, !.rounds = @ + 1,
                                    !.roundPuts = 1, !.putCount = @ + 1,
                                    !.result = "none"]
            /\ UNCHANGED localStorage
       ELSE /\ localStorage' = [localStorage EXCEPT ![Editor] = announcements[Editor]]
            /\ crud' = [crud EXCEPT !.pc = "done"]
            /\ UNCHANGED puts
    /\ UNCHANGED <<crudFixed, announcements, lastLocalSaveTime, lastSyncTime, ops>>

\* await new Promise(resolve => setTimeout(resolve, 1000 * retryCount)), then
\* the next iteration of the loop sends this.announcements again.
BackoffDone ==
    /\ crud.pc = "backoff"
    /\ SendPut(announcements[Editor], Len(ops[Editor]))
    /\ crud' = [crud EXCEPT !.pc = "put", !.roundPuts = @ + 1, !.putCount = @ + 1]
    /\ UNCHANGED <<crudFixed, announcements, localStorage, lastLocalSaveTime, lastSyncTime,
                   ops>>

\* fix_deletion_sync.js deleteAnnouncement after the user confirmed, up to the
\* await: the array is filtered, localStorage is not written before the PUT.
FixDelete(id) ==
    /\ CanStart /\ OpAllowed("delete", id)
    /\ announcements' = [announcements EXCEPT ![Editor] = AfterOp("delete", id)]
    /\ IF cloudSyncEnabled[Editor]
       THEN /\ SendPut(AfterOp("delete", id), Len(ops[Editor]) + 1)
            /\ crud' = FirstAttempt("fixDelete", "delete", id)
            /\ UNCHANGED localStorage
       ELSE /\ localStorage' = [localStorage EXCEPT ![Editor] = AfterOp("delete", id)]
            /\ crud' = LocalOnly("fixDelete", "delete", id)
            /\ UNCHANGED puts
    /\ Did(Editor, "delete", id)
    /\ UNCHANGED <<crudFixed, lastLocalSaveTime, lastSyncTime>>

\* fix_deletion_sync.js: the fetch answers; success writes localStorage, a
\* failure opens the confirm dialog.
FixDeleteAttemptReturn ==
    /\ Answered("fixDelete")
    /\ AnswerTaken
    /\ IF Head(puts[Editor]).st = "ok"
       THEN /\ localStorage' = [localStorage EXCEPT ![Editor] = announcements[Editor]]
            /\ crud' = [crud EXCEPT !.pc = "done", !.result = "synced"]
       ELSE /\ crud' = [crud EXCEPT !.pc = "confirm", !.warned = TRUE, !.result = "failed"]
            /\ UNCHANGED localStorage
    /\ UNCHANGED <<crudFixed, announcements, lastLocalSaveTime, lastSyncTime, ops>>

\* fix_deletion_sync.js: the user answers "Would you like to retry?".  Yes sets
\* the one-second timer and returns, no falls through to the display update.
FixDeleteConfirmAnswer(again) ==
    /\ crud.handler = "fixDelete" /\ crud.pc = "confirm"
    /\ IF again
       THEN /\ crud.rounds < MaxRounds
            /\ crud' = [crud EXCEPT !.pc = "timer"]
       ELSE crud' = [crud EXCEPT !.pc = "done"]
    /\ UNCHANGED <<crudFixed, announcements, localStorage, lastLocalSaveTime, lastSyncTime,
                   puts, ops>>

\* fix_deletion_sync.js: the timer calls deleteAnnouncement(id) again, which
\* asks "Are you sure" again before it filters and sends.
FixDeleteRerun(sure) ==
    /\ crud.handler = "fixDelete" /\ crud.pc = "timer"
    /\ IF sure
       THEN /\ announcements' = [announcements EXCEPT ![Editor] = DeleteFrom(@, crud.id)]
            /\ SendPut(DeleteFrom(announcements[Editor], crud.id), Len(ops[Editor]))
            /\ crud' = [crud EXCEPT !.pc = "put", !.rounds = @ + 1,
                                    !.roundPuts = 1, !.putCount = @ + 1,
                                    !.result = "none"]
       ELSE /\ crud' = [crud EXCEPT !.pc = "done"]
            /\ UNCHANGED <<announcements, puts>>
    /\ UNCHANGED <<crudFixed, localStorage, lastLocalSaveTime, lastSyncTime, ops>>

Kinds == {"create", "edit", "delete"}

\* One editor whose handlers carry retry loops, and an endpoint that may fail.
CrudNext ==
    \/ \E form \in Forms, kind \in Kinds, id \in SysIds : DirectSubmit(form, kind, id)
    \/ \E id \in SysIds : DirectDelete(id)
    \/ DirectAttemptReturn
    \/ \E kind \in Kinds, id \in SysIds : EnhancedSave(kind, id)
    \/ EnhancedSaveAttemptReturn
    \/ \E form \in Forms, kind \in Kinds, id \in SysIds : CreationSubmit(form, kind, id)
    \/ CreationAttemptReturn
    \/ \E again \in BOOLEAN : CreationConfirmAnswer(again)
    \/ BackoffDone
    \/ \E id \in SysIds : FixDelete(id)
    \/ FixDeleteAttemptReturn
    \/ \E again \in BOOLEAN : FixDeleteConfirmAnswer(again)
    \/ \E sure \in BOOLEAN : FixDeleteRerun(sure)
    \/ PutServe(Editor)
    \/ PutFail(Editor)

CrudSpec == Init /\ [][CrudNext]_vars

\* direct_sync_fix.js as a whole: its delete handler with the retry loop next
\* to its enhancedSyncCheck (20-second timer, tab focus), and an endpoint
\* that may fail.
DirectNext ==
    \/ \E id \in SysIds : DirectDelete(id)
    \/ DirectAttemptReturn
    \/ BackoffDone
    \/ PutServe(Editor)
    \/ PutFail(Editor)
    \/ ~syncInProgress[Editor] /\ EnhancedSyncCall(Editor)
    \/ GetServe(Editor)
    \/ GetFail(Editor)
    \/ EnhancedSyncReturn(Editor)
    \/ Tick

DirectSpec == Init /\ [][DirectNext]_vars

\* The sets an editor may hold when the form is opened: one or two
\* announcements, written by this version of the program or by an older one
\* that recorded no lastModified or no createdAt.
EditableRecords ==
    { Rec(i, "old", FarEndMs, s.createdAt, s.lastModified) :
        i \in SysIds \ {NewId(Editor)},
        s \in { [createdAt |-> 0, lastModified |-> 0], [createdAt |-> 1, lastModified |-> 0],
                [createdAt |-> 1, lastModified |-> 1] } }

EditableSets ==
    { <<r>> : r \in EditableRecords }
    \cup { pair \in { <<r, q>> : r \in EditableRecords, q \in EditableRecords } :
                pair[1].id # pair[2].id }

EditInit ==
    /\ MergeIdle
    /\ BinIdle
    /\ ScriptIdle
    /\ StartIdle
    /\ clock = StartMs
    /\ online = TRUE
    /\ \E held \in EditableSets :
          /\ cloud = held
          /\ announcements = [c \in Clients |-> held]
          /\ localStorage = [c \in Clients |-> held]
    /\ cloudSyncEnabled = [c \in Clients |-> TRUE]
    /\ syncInProgress = [c \in Clients |-> FALSE]
    /\ lastLocalSaveTime = [c \in Clients |-> 0]
    /\ lastSyncTime = [c \in Clients |-> 0]
    /\ gets = [c \in Clients |-> <<>>]
    /\ puts = [c \in Clients |-> <<>>]
    /\ syncLog = [c \in Clients |-> Logged("none", 0)]
    /\ callDropped = [c \in Clients |-> "never"]
    /\ ops = [c \in Clients |-> <<>>]
    /\ putLog = <<>>
    /\ crud = CrudIdle

\* The form of direct_sync_fix.js used on such a set, and an endpoint that may fail.
EditNext ==
    \/ \E form \in Forms, kind \in {"create", "edit"}, id \in SysIds : DirectSubmit(form, kind, id)
    \/ DirectAttemptReturn
    \/ BackoffDone
    \/ PutServe(Editor)
    \/ PutFail(Editor)

EditSpec == EditInit /\ [][EditNext]_vars

\* ------------------------------------------- the scripts marked as disabled
\* What is left of the page's state when a script runs.
scriptFixed == <<mergeVars, createdBins, response, loadResult, stored, loadFetches, loadRetry,
                 crud, putLog, clock, online, cloud, syncInProgress, lastLocalSaveTime,
                 lastSyncTime, puts, syncLog, callDropped, ops>>

\* direct_sync_fix.js: the header logs inside if (true) { } and the script
\* goes on; once window.dashboard exists the then-callback sets the cloud
\* configuration, assigns four methods, and sets the 20-second interval and
\* the 1-second timeout that call enhancedSyncCheck.
DirectSyncFixLoaded ==
    /\ "direct_sync_fix.js" \notin scriptsRun
    /\ scriptsRun' = scriptsRun \cup {"direct_sync_fix.js"}
    /\ cloudSyncEnabled' = [cloudSyncEnabled EXCEPT !["A"] = TRUE]
    /\ cloudSyncUrl' = [cloudSyncUrl EXCEPT !["A"] = ConfiguredUrl]
    /\ patchedMethods' = patchedMethods \cup {"saveToCloudImmediate", "handleAnnouncementSubmit",
                                              "deleteAnnouncement", "enhancedSyncCheck"}
    /\ syncTimers' = syncTimers + 2
    /\ UNCHANGED <<scriptFixed, startPhase, announcements, localStorage, gets>>

\* fix_announcement_sync.js: the same header; enhancedCloudSync assigns
\* saveToCloud, getCurrentAnnouncements and saveAnnouncements and sets the
\* 15-second interval that calls syncAnnouncementsFromCloud.
FixAnnouncementSyncLoaded ==
    /\ "fix_announcement_sync.js" \notin scriptsRun
    /\ scriptsRun' = scriptsRun \cup {"fix_announcement_sync.js"}
    /\ patchedMethods' = patchedMethods \cup {"saveToCloud", "getCurrentAnnouncements",
                                              "saveAnnouncements"}
    /\ syncTimers' = syncTimers + 1
    /\ UNCHANGED <<scriptFixed, startPhase, cloudSyncEnabled, cloudSyncUrl, announcements,
                   localStorage, gets>>

\* emergency_resync.js: the same header, then emergencyResync() is called:
\* localStorage.removeItem('dashboard_announcements') and the GET of the
\* document.
EmergencyResyncStart ==
    /\ "emergency_resync.js" \notin scriptsRun
    /\ gets["A"] = <<>>
    /\ scriptsRun' = scriptsRun \cup {"emergency_resync.js"}
    /\ localStorage' = [localStorage EXCEPT !["A"] = <<>>]
    /\ gets' = [gets EXCEPT !["A"] = Append(@, [SentGet("A") EXCEPT !.by = "emergencyResync"])]
    /\ UNCHANGED <<scriptFixed, startPhase, syncTimers, patchedMethods, cloudSyncEnabled,
                   cloudSyncUrl, announcements>>

\* emergencyResync after the await: data.record.announcements is written to
\* localStorage and to window.dashboard.announcements; on success and on
\* failure the page reload is scheduled.
EmergencyResyncReturn ==
    /\ gets["A"] # <<>> /\ Head(gets["A"]).st # "sent"
    /\ Head(gets["A"]).by = "emergencyResync"
    /\ LET fetched == AnnouncementsOf(RecordOf(Head(gets["A"]).data))
       IN IF Head(gets["A"]).st = "ok" /\ IsArray(fetched)
          THEN /\ localStorage' = [localStorage EXCEPT !["A"] = fetched.items]
               /\ announcements' = [announcements EXCEPT !["A"] = fetched.items]
          ELSE UNCHANGED <<localStorage, announcements>>
    /\ startPhase' = "reload scheduled"
    /\ gets' = [gets EXCEPT !["A"] = Tail(@)]
    /\ UNCHANGED <<scriptFixed, syncTimers, scriptVars, cloudSyncEnabled, cloudSyncUrl>>

\* A dashboard that has started, with cloud sync on or off, and the document
\* as another client may have left it.
ScriptInit ==
    /\ MergeIdle
    /\ BinIdle
    /\ ScriptIdle
    /\ response = Rejected
    /\ loadResult = Threw
    /\ stored = NothingStored
    /\ loadFetches = 0
    /\ loadRetry = "none"
    /\ startPhase = "started"
    /\ clock = StartMs
    /\ online = TRUE
    /\ cloud \in CloudDocs
    /\ \E enabled \in BOOLEAN :
          /\ cloudSyncEnabled = [c \in Clients |-> enabled]
          /\ syncTimers = TimersSet(enabled)
    /\ announcements = [c \in Clients |-> <<BaseRecord>>]
    /\ localStorage = [c \in Clients |-> <<BaseRecord>>]
    /\ syncInProgress = [c \in Clients |-> FALSE]
    /\ lastLocalSaveTime = [c \in Clients |-> 0]
    /\ lastSyncTime = [c \in Clients |-> 0]
    /\ gets = [c \in Clients |-> <<>>]
    /\ puts = [c \in Clients |-> <<>>]
    /\ syncLog = [c \in Clients |-> Logged("none", 0)]
    /\ callDropped = [c \in Clients |-> "never"]
    /\ ops = [c \in Clients |-> <<>>]
    /\ putLog = <<>>
    /\ crud = CrudIdle

\* The three scripts are loaded into the running page in any order; the
\* timers direct_sync_fix.js set then call enhancedSyncCheck.
ScriptNext ==
    \/ DirectSyncFixLoaded
    \/ FixAnnouncementSyncLoaded
    \/ EmergencyResyncStart
    \/ EmergencyResyncReturn
    \/ /\ "enhancedSyncCheck" \in patchedMethods
       /\ ~syncInProgress["A"]
       /\ EnhancedSyncCall("A")
    \/ GetServe("A")
    \/ GetFail("A")
    \/ EnhancedSyncReturn("A")
    \/ Tick

ScriptSpec == ScriptInit /\ [][ScriptNext]_vars

\* ------------------------------------------------ inputs of the merge check
MergeNowMs == 48 * HourMs

Ended(h) == MergeNowMs - h * HourMs

Stamps == { [createdAt |-> 0, lastModified |-> 0], [createdAt |-> 1, lastModified |-> 0] }
          \cup { [createdAt |-> 1, lastModified |-> m] : m \in 1..MaxLm }

\* Records that ended 25 or 23 hours ago with every stamp, and records that
\* ended exactly 24 hours ago.
LocalRecords ==
    { Rec(i, "L", Ended(h), s.createdAt, s.lastModified) :
        i \in Ids, h \in {25, 23}, s \in Stamps }
    \cup { Rec(i, "L", Ended(24), 1, 1) : i \in Ids }

\* The same for the cloud side, and records the cloud loop skips: no text, no id.
CloudRecords ==
    { Rec(i, "C", Ended(h), s.createdAt, s.lastModified) :
        i \in Ids, h \in {25, 23}, s \in Stamps }
    \cup { Rec(i, "C", Ended(24), 1, 1) : i \in Ids }
    \cup { Rec(i, "", Ended(23), 1, MaxLm) : i \in Ids }
    \cup { Rec(NoId, "C", Ended(23), 1, MaxLm) }

DistinctIds(anns) ==
    \A i \in 1..Len(anns) : \A j \in 1..Len(anns) : i # j => anns[i].id # anns[j].id

\* The records of a set a client holds: any stamp, any end, with or without text.
HeldRecords ==
    { Rec(i, "L", Ended(h), s.createdAt, s.lastModified) :
        i \in SysIds, h \in {25, 24, 23}, s \in Stamps }
    \cup { Rec(i, "", Ended(23), 1, MaxLm) : i \in SysIds }

\* The arguments of the call: any two arrays of at most MaxTotal records
\* together; one set of up to three announcements passed on both sides; or the
\* same two announcements on both sides in two versions.
MergeInputs ==
    \/ \E k \in 0..MaxTotal : \E j \in 0..(MaxTotal - k) :
          /\ localAnnouncements \in [1..k -> LocalRecords]
          /\ cloudAnnouncements \in [1..j -> CloudRecords]
    \/ /\ \E k \in 0..Cardinality(SysIds) : localAnnouncements \in [1..k -> HeldRecords]
       /\ DistinctIds(localAnnouncements)
       /\ cloudAnnouncements = localAnnouncements
    \/ /\ localAnnouncements \in [1..Cardinality(Ids) -> LocalRecords]
       /\ cloudAnnouncements \in [1..Cardinality(Ids) -> CloudRecords]
       /\ DistinctIds(localAnnouncements)
       /\ DistinctIds(cloudAnnouncements)
       /\ \A i \in 1..Len(cloudAnnouncements) : cloudAnnouncements[i].id # NoId

MergeInit ==
    /\ MergeInputs
    /\ mergeNow = MergeNowMs
    /\ mergedAnnouncements = <<>>
    /\ argsAfterMerge = <<>>
    /\ mergePhase = "input"
    /\ SysIdle
    /\ StartIdle
    /\ BinIdle
    /\ ScriptIdle

CallMerge ==
    /\ mergePhase = "input"
    /\ mergedAnnouncements' = mergeAnnouncements(localAnnouncements, cloudAnnouncements, mergeNow)
    /\ argsAfterMerge' = << LocalAfterMerge(localAnnouncements, mergeNow),
                             CloudAfterMerge(cloudAnnouncements, mergeNow) >>
    /\ mergePhase' = "merged"
    /\ UNCHANGED <<localAnnouncements, cloudAnnouncements, mergeNow, startVars, binVars, scriptVars, sysVars>>

MergeNext == CallMerge

MergeSpec == MergeInit /\ [][MergeNext]_vars

\* ------------------------------------------------- properties of the merge

Occurrences(anns, id) == Cardinality({ i \in 1..Len(anns) : anns[i].id = id })

TheOne(anns, id) == anns[CHOOSE i \in 1..Len(anns) : anns[i].id = id]

\* An id held once by each side, both versions carrying a lastModified, the two differing.
BothSidesDiffer(id) ==
    /\ mergePhase = "merged"
    /\ Occurrences(localAnnouncements, id) = 1
    /\ Occurrences(cloudAnnouncements, id) = 1
    /\ TheOne(localAnnouncements, id).lastModified # 0
    /\ TheOne(cloudAnnouncements, id).lastModified # 0
    /\ TheOne(localAnnouncements, id).lastModified # TheOne(cloudAnnouncements, id).lastModified

GreaterVersion(id) ==
    IF TheOne(cloudAnnouncements, id).lastModified > TheOne(localAnnouncements, id).lastModified
    THEN TheOne(cloudAnnouncements, id)
    ELSE TheOne(localAnnouncements, id)

SyncCameBack(c) ==
    /\ gets[c] # <<>> /\ Head(gets[c]).st = "ok"
    /\ Len(gets'[c]) < Len(gets[c])

LocalCopiesUnchanged(c) ==
    /\ announcements'[c] = announcements[c]
    /\ localStorage'[c] = localStorage[c]

ProgramState(c) ==
    <<cloudSyncEnabled[c], announcements[c], localStorage[c], syncInProgress[c],
      lastLocalSaveTime[c], lastSyncTime[c], gets[c], puts[c]>>

\* C3: per client at most one reconciliation is in flight; a call made while
\* syncInProgress is true sends no GET and changes nothing, and when the
\* reconciliation in flight finishes nothing is left pending.
C3_SingleFlight ==
    [][\A c \in Clients :
         /\ Len(gets'[c]) <= 1
         /\ (syncInProgress[c] => Len(gets'[c]) <= Len(gets[c]))
         /\ (callDropped'[c] # callDropped[c] => ProgramState(c)' = ProgramState(c))
         /\ (Len(gets'[c]) < Len(gets[c]) => gets'[c] = <<>> /\ ~syncInProgress'[c])]_vars

\* A call was dropped while a reconciliation was in flight, and that
\* reconciliation is still the only one.
C3_Witness ==
    /\ callDropped["A"] = "during sync"
    /\ syncInProgress["A"]
    /\ Len(gets["A"]) = 1

\* ------------------------------------------------------------- retry loops
LoopHandlers == {"direct", "enhancedSave", "creation"}

HoldsNew(anns, id) ==
    /\ Holds(anns, id)
    /\ TheRecord(anns, id).text = Editor
    /\ TheRecord(anns, id).lastModified = clock

\* C5: when every remote write attempt of a create or edit failed, the
\* operation ends with a warning shown to the user, and the record is present
\* with its new content in the in-memory announcements and in localStorage.
C5_Original ==
    (crud.pc = "done" /\ crud.kind \in {"create", "edit"} /\ crud.result = "failed")
        => /\ crud.warned
           /\ HoldsNew(announcements[Editor], crud.id)
           /\ HoldsNew(localStorage[Editor], crud.id)

\* C6: after a confirmed deleteAnnouncement(id) has returned, neither the
\* in-memory announcements nor localStorage holds a record with that id.
C6_Original ==
    (crud.pc = "done" /\ crud.kind = "delete")
        => /\ ~Holds(announcements[Editor], crud.id)
           /\ ~Holds(localStorage[Editor], crud.id)

\* ------------------------------------------------------------- two clients
\* The endpoint has handled a PUT of client c.
Landed(c) == \E i \in 1..Len(putLog) : putLog[i].by = c

LandedAt(c) == CHOOSE i \in 1..Len(putLog) : putLog[i].by = c

\* Client c's last reconciliation ran the merge and was called after the
\* endpoint had handled n PUTs.
Reconciled(c, n) == syncLog[c].outcome = "merged" /\ syncLog[c].sawPuts >= n

NothingInFlight == \A c \in Clients : puts[c] = <<>> /\ gets[c] = <<>>

\* C7: A edits a1 at T1 and B edits it at T2 > T1; once both PUTs have
\* completed and both clients have then reconciled outside the write guard,
\* both hold B's version.
C7_Original ==
    ( /\ ops["A"] = << [kind |-> "edit", id |-> "a1"] >>
      /\ ops["B"] = << [kind |-> "edit", id |-> "a1"] >>
      /\ lastLocalSaveTime["A"] < lastLocalSaveTime["B"]
      /\ Landed("A") /\ Landed("B")
      /\ NothingInFlight
      /\ Reconciled("A", 2) /\ Reconciled("B", 2) )
    => \A c \in Clients :
          /\ Holds(announcements[c], "a1")
          /\ TheRecord(announcements[c], "a1").text = "B"

\* C8: A and B each create an announcement; once both PUTs have completed and
\* both clients have then reconciled, both announcements are on both clients
\* and in the remote document.
C8_Original ==
    ( /\ ops["A"] = << [kind |-> "create", id |-> NewId("A")] >>
      /\ ops["B"] = << [kind |-> "create", id |-> NewId("B")] >>
      /\ Landed("A") /\ Landed("B")
      /\ NothingInFlight
      /\ Reconciled("A", 2) /\ Reconciled("B", 2) )
    => \A id \in {NewId("A"), NewId("B")} :
          /\ Holds(cloud, id)
          /\ \A c \in Clients : Holds(announcements[c], id)

\* C9: once the PUT of a client's deletion has been handled and another
\* client, which did not touch the announcement, has run a reconciliation
\* called since, that client no longer holds the announcement and the remote
\* document does not hold it.
C9_Original ==
    \A c \in Clients : \A d \in Clients \ {c} :
        ( /\ Len(ops[c]) = 1 /\ ops[c][1].kind = "delete" /\ Landed(c)
          /\ \A i \in 1..Len(ops[d]) : ops[d][i].id # ops[c][1].id
          /\ Reconciled(d, LandedAt(c)) )
        => /\ ~Holds(announcements[d], ops[c][1].id)
           /\ ~Holds(cloud, ops[c][1].id)

\* ------------------------------------------------------- failed remote write
FailedWrite == puts["A"] # <<>> /\ Head(puts["A"]).st = "err"

\* The remote document shows A's operation.
Written ==
    /\ ops["A"] # <<>>
    /\ IF ops["A"][1].kind = "delete"
       THEN ~Holds(cloud, ops["A"][1].id)
       ELSE /\ Holds(cloud, ops["A"][1].id)
            /\ TheRecord(cloud, ops["A"][1].id).text = "A"

\* C10: if the remote is reachable from some time on, a create, edit or delete
\* whose remote write failed is eventually written to the remote document
\* without a further operation of the user.
C10_Original == (<>[]online) => [](FailedWrite => <>Written)

\* ------------------------------------------------- additions from one side
Merged == mergePhase = "merged"

\* The arrays hold objects: the record at index i of an argument array, as the
\* call left it, is one of the records of the returned array.
InOutput(side, i) ==
    \E j \in 1..Len(mergedAnnouncements) : mergedAnnouncements[j] = argsAfterMerge[side][i]

EndedWithin24h(ann) == mergeNow - ann.endMs <= 24 * HourMs

EndedLessThan24hAgo(ann) == mergeNow - ann.endMs < 24 * HourMs

OnOneSideOnce(anns, i, others) ==
    /\ Occurrences(anns, anns[i].id) = 1
    /\ ~Holds(others, anns[i].id)

C12_Original ==
    Merged =>
        \A i \in 1..Len(localAnnouncements) :
            OnOneSideOnce(localAnnouncements, i, cloudAnnouncements)
            => (InOutput(1, i) <=> EndedWithin24h(localAnnouncements[i]))

\* --------------------------------------------------------------- idempotence
\* C13: for a set S of announcements with distinct ids, mergeAnnouncements(S, S)
\* returns the records of S, each once and in the order of S, apart from the
\* records that ended 24 hours before now or earlier.  The records are S's own
\* objects, so a lastModified the call filled in shows in S as well.
C13_Idempotent ==
    (Merged /\ localAnnouncements = cloudAnnouncements) =>
        mergedAnnouncements =
            SelectSeq(argsAfterMerge[1], LAMBDA ann : EndedLessThan24hAgo(ann))

\* A set of three announcements merged with itself: one was pruned, one had no
\* lastModified, and two came back.
C13_Witness ==
    /\ Merged /\ localAnnouncements = cloudAnnouncements
    /\ Len(localAnnouncements) = 3
    /\ Len(mergedAnnouncements) = 2
    /\ \E i \in 1..3 : localAnnouncements[i].lastModified = 0 /\ InOutput(1, i)
    /\ \E i \in 1..3 : ~InOutput(1, i)

\* ------------------------------------------------------------- commutativity
AsSet(anns) == { anns[i] : i \in 1..Len(anns) }

IdsOf(anns) == { anns[i].id : i \in 1..Len(anns) }

\* The same announcements are held by both sides, each once.
SameIdsBothSides ==
    /\ DistinctIds(localAnnouncements) /\ DistinctIds(cloudAnnouncements)
    /\ IdsOf(localAnnouncements) = IdsOf(cloudAnnouncements)
    /\ localAnnouncements # <<>>

\* The call with the two arguments exchanged.
SwappedMerge == mergeAnnouncements(cloudAnnouncements, localAnnouncements, mergeNow)

\* Every version is one an edit wrote: it has a text and a lastModified.
AllEdited ==
    /\ \A i \in 1..Len(localAnnouncements) :
          localAnnouncements[i].text # "" /\ localAnnouncements[i].lastModified # 0
    /\ \A j \in 1..Len(cloudAnnouncements) :
          cloudAnnouncements[j].text # "" /\ cloudAnnouncements[j].lastModified # 0

\* C14 as stated: when the same ids were edited on both sides,
\* mergeAnnouncements(A, B) and mergeAnnouncements(B, A) contain the same records.
C14_Original ==
    (Merged /\ SameIdsBothSides /\ AllEdited)
        => AsSet(mergedAnnouncements) = AsSet(SwappedMerge)

\* Every record has a text, and the two versions of an id never carry the same
\* lastModified once the missing ones are filled in.
NoTies ==
    /\ \A i \in 1..Len(localAnnouncements) : localAnnouncements[i].text # ""
    /\ \A j \in 1..Len(cloudAnnouncements) : cloudAnnouncements[j].text # ""
    /\ \A i \in 1..Len(localAnnouncements) : \A j \in 1..Len(cloudAnnouncements) :
          localAnnouncements[i].id = cloudAnnouncements[j].id
          => BackFill(localAnnouncements[i], mergeNow).lastModified
                # BackFill(cloudAnnouncements[j], mergeNow).lastModified

\* C14: when the same ids were edited on both sides, every version has a text
\* and the two versions of each id differ in lastModified,
\* mergeAnnouncements(A, B) and mergeAnnouncements(B, A) contain the same records.
C14_CommutativeOffTies ==
    (Merged /\ SameIdsBothSides /\ NoTies)
        => AsSet(mergedAnnouncements) = AsSet(SwappedMerge)

\* Two announcements edited on both sides, one newer in the cloud and one
\* newer locally: the merge returns the cloud's version of the first and the
\* local version of the second, in either order of the arguments.
C14_Witness ==
    /\ Merged /\ SameIdsBothSides /\ NoTies
    /\ Len(mergedAnnouncements) = 2
    /\ \E i \in 1..2 : mergedAnnouncements[i].text = "C"
    /\ \E i \in 1..2 : mergedAnnouncements[i].text = "L"
    /\ AsSet(SwappedMerge) = AsSet(mergedAnnouncements)

\* ------------------------------------------------- the flag is always reset
\* A run of a reconciliation ends: its answered GET is taken off.
RunEnds(c) == gets[c] # <<>> /\ Len(gets'[c]) < Len(gets[c])

\* C15: a run of syncAnnouncementsFromCloud (or of enhancedSyncCheck) that set
\* syncInProgress leaves it false when it ends, whether the merge was applied,
\* changed nothing, was skipped by the write guard, the data format was
\* invalid or the fetch failed; the flag is never left set with no request in
\* flight.
C15_FlagReset ==
    /\ [][\A c \in Clients : RunEnds(c) => ~syncInProgress'[c]]_vars
    /\ [](\A c \in Clients : syncInProgress[c] => (gets[c] # <<>> \/ puts[c] # <<>>))

\* A reconciliation ended on the invalid-format path and the flag is down.
C15_Witness ==
    /\ syncLog["A"].outcome = "invalid format"
    /\ gets["A"] = <<>> /\ puts["A"] = <<>>
    /\ ~syncInProgress["A"]

\* ------------------------------------------------------------ a failed fetch
\* The body has one of the four shapes: a bare array, { announcements: [...] },
\* { record: { announcements: [...] } }, { record: [...] }.
Recognised(data) ==
    \/ IsArray(data)
    \/ IsArray(AnnouncementsOf(data))
    \/ IsArray(RecordOf(data))
    \/ IsArray(AnnouncementsOf(RecordOf(data)))

FetchFailedOrUnrecognised(get) ==
    get.st = "err" \/ (get.st = "ok" /\ ~Recognised(get.data))

\* C16: a reconciliation whose fetch failed or returned an unrecognised
\* envelope leaves the in-memory announcements, the localStorage copy and the
\* remote document as they were, and sends no further request.
C16_Original ==
    [][\A c \in Clients :
         (RunEnds(c) /\ FetchFailedOrUnrecognised(Head(gets[c])))
            => /\ announcements'[c] = announcements[c]
               /\ localStorage'[c] = localStorage[c]
               /\ cloud' = cloud
               /\ gets'[c] = <<>> /\ puts'[c] = puts[c]]_vars


\* ---------------------------------------------------------------- C17
\* The four envelopes of a set: the bare array, {announcements: [...]},
\* {record: {announcements: [...]}} and {record: [...]}.
Envelopes(anns) ==
    { JArray(anns),
      JObject(JUndefined, JArray(anns)),
      JObject(JObject(JUndefined, JArray(anns)), JUndefined),
      JObject(JArray(anns), JUndefined) }

\* The arrays found at the four places of a body.
ArraysIn(data) ==
    { part.items : part \in { d \in { data, RecordOf(data), AnnouncementsOf(data),
                                      AnnouncementsOf(RecordOf(data)) } : d.kind = "array" } }

\* C17: loadFromCloud returns the same record sequence for each of the four
\* response envelopes of a set (bare array, {announcements}, {record:
\* {announcements}}, {record: [...]}), and throws for every other body of a
\* 2xx response, for every non-2xx response and for a fetch that failed.
C17_Envelopes ==
    loadFetches > 0 =>
        /\ \A anns \in ArraysIn(response.data) :
               (response.status = "ok" /\ response.data \in Envelopes(anns))
                   => loadResult = Returned(anns)
        /\ (\/ response.status # "ok"
            \/ \A anns \in ArraysIn(response.data) : response.data \notin Envelopes(anns))
               => loadResult = Threw

\* A set of two records has been read from a {record: [...]} body.
C17_Witness ==
    /\ loadFetches > 0
    /\ response = Ok(JObject(JArray(<<BaseRecord, OtherRecord>>), JUndefined))
    /\ loadResult = Returned(<<BaseRecord, OtherRecord>>)

\* ---------------------------------------------------------------- C18
\* What was last written under 'dashboard_announcements', empty when nothing
\* was written or what is there cannot be parsed.
LastWritten == IF stored.kind = "json" THEN stored.value ELSE <<>>

LoadAnnouncementsRan == startPhase = "constructed" /\ startPhase' # "constructed"

\* C18: loadAnnouncements never throws. With the cloud not read (sync
\* disabled) or its read failed, it yields the set last written to
\* localStorage, the empty set when nothing was written and the empty set when
\* the stored payload cannot be parsed, and leaves localStorage as it is; with
\* the cloud read it yields the cloud's set, which is then the set written to
\* localStorage.
C18_LoadNeverThrows ==
    [][LoadAnnouncementsRan =>
          /\ startPhase' = "loaded"
          /\ IF cloudSyncEnabled["A"] /\ ~loadResult'.threw
             THEN /\ announcements'["A"] = loadResult'.value
                  /\ localStorage'["A"] = announcements'["A"]
             ELSE /\ announcements'["A"] = LastWritten
                  /\ localStorage' = localStorage]_vars

\* The cloud read failed and what is stored cannot be parsed: the load ended
\* with the empty set.
C18_Witness ==
    /\ startPhase = "loaded"
    /\ cloudSyncEnabled["A"]
    /\ loadFetches = 1 /\ loadResult = Threw
    /\ stored = Corrupt
    /\ announcements["A"] = <<>>

\* ---------------------------------------------------------------- C19
Parses(date, time) == ~NewDate(date, time).nan

\* What the validation is to refuse: no text, a date or time missing or not
\* parsable, an end that is not after the start.
MustBeRejected(form) ==
    \/ Trim(form.text) = ""
    \/ Missing \in {form.startDate, form.startTime, form.endDate, form.endTime}
    \/ ~Parses(form.startDate, form.startTime)
    \/ ~Parses(form.endDate, form.endTime)
    \/ NewDate(form.endDate, form.endTime).ms <= NewDate(form.startDate, form.startTime).ms

\* handleAnnouncementSubmit ran on this step.
SubmitRan == crud.pc \in {"idle", "done"} /\ crud'.form # NoForm /\ crud'.pc # "idle"

\* C19: handleAnnouncementSubmit rejects a form whose text is empty, one with
\* a date or time field missing or unparsable, and one whose end is not
\* strictly after its start; after a rejection the in-memory announcements,
\* localStorage and the remote document are as before and no request was sent.
C19_Original ==
    [][(SubmitRan /\ MustBeRejected(crud'.form)) =>
           /\ crud'.result = "rejected"
           /\ announcements' = announcements
           /\ localStorage' = localStorage
           /\ cloud' = cloud
           /\ puts' = puts
           /\ gets' = gets]_vars

\* ---------------------------------------------------------------- C20
\* No remote call was issued or is in flight for the client and no timer is set.
NothingRemote(c) ==
    /\ loadFetches = 0
    /\ loadRetry = "none"
    /\ syncTimers = 0
    /\ gets[c] = <<>>
    /\ puts[c] = <<>>
    /\ ~syncInProgress[c]
    /\ \A i \in 1..Len(putLog) : putLog[i].by # c

Saved(c) == ops'[c] # ops[c]

\* C20: with cloudSyncEnabled false, loadAnnouncements, saveAnnouncements,
\* syncAnnouncementsFromCloud and startCloudSync issue no remote call and set
\* no timer, and saveAnnouncements writes the whole set, the user's change
\* included, to localStorage.
C20_DisabledIsLocalOnly ==
    /\ [](~cloudSyncEnabled["A"] => NothingRemote("A"))
    /\ [][(~cloudSyncEnabled["A"] /\ Saved("A")) =>
              /\ localStorage'["A"] = announcements'["A"]
              /\ localStorage'["A"] # localStorage["A"]
              /\ cloud' = cloud]_vars

\* With sync disabled the dashboard has started, a call of
\* syncAnnouncementsFromCloud has returned at once, and the user's new
\* announcement is in localStorage.
C20_Witness ==
    /\ ~cloudSyncEnabled["A"]
    /\ startPhase = "started"
    /\ callDropped["A"] = "disabled"
    /\ ops["A"] # <<>> /\ ops["A"][1].kind = "create"
    /\ Holds(localStorage["A"], NewId("A"))

\* ---------------------------------------------------------------- C21
\* The remote document was read on this step: by loadAnnouncements, by its
\* retry, or by a syncAnnouncementsFromCloud that ends.
RemoteRead == loadFetches' > loadFetches \/ RunEnds("A")

\* What the read gave, nothing when it failed.
FetchedOnRead ==
    IF RunEnds("A") THEN loadFromCloud(ResponseOf(Head(gets["A"]))).value
    ELSE loadResult'.value

\* The client's set before the read: what is stored when the dashboard has
\* not loaded yet, this.announcements afterwards.
LocalBeforeRead == IF startPhase = "constructed" THEN LastWritten ELSE announcements["A"]

\* C21: reading the remote document never removes a non-expired record from
\* the client's local set because the record is missing from the remote:
\* after a load or a reconciliation every local record that was not expired
\* and whose id is absent from the fetched data is still in the in-memory set
\* and in localStorage.
C21_Original ==
    [][RemoteRead =>
          \A i \in 1..Len(LocalBeforeRead) :
              (/\ KeepUnexpired(LocalBeforeRead[i], clock)
               /\ ~Holds(FetchedOnRead, LocalBeforeRead[i].id))
                  => /\ Holds(announcements'["A"], LocalBeforeRead[i].id)
                     /\ Holds(localStorage'["A"], LocalBeforeRead[i].id)]_vars

\* ---------------------------------------------------------------- C22
\* C22: every remote call carries a timeout, so a call that never receives a
\* response is ended and treated as a network failure: a client whose fetch
\* hangs does not stay in the Syncing state (syncInProgress true) forever.
C22_Original == syncInProgress["A"] ~> ~syncInProgress["A"]

\* ---------------------------------------------------------------- C23
\* saveAnnouncements was called on this step.
SaveCalled(c) == ops'[c] # ops[c]

\* C23: every call of saveAnnouncements with cloud sync enabled sends a PUT
\* that carries the whole current set, also when it is called while a
\* reconciliation's GET or an earlier save's PUT is in flight.
C23_Original ==
    [][\A c \in Clients :
         (SaveCalled(c) /\ cloudSyncEnabled[c])
            => /\ Len(puts'[c]) = Len(puts[c]) + 1
               /\ puts'[c][Len(puts'[c])].st = "sent"
               /\ puts'[c][Len(puts'[c])].body = announcements'[c]]_vars

\* ---------------------------------------------------------------- C24
\* The first PUT of an operation of the editor is sent on this step.
FirstPutSent == Len(puts'[Editor]) > Len(puts[Editor]) /\ crud'.putCount = 1

\* C24: in every create, edit and delete path the new set is in
\* localStorage when the first PUT of the operation is sent.
C24_Original ==
    [][FirstPutSent =>
          localStorage'[Editor] = puts'[Editor][Len(puts'[Editor])].body]_vars

\* ---------------------------------------------------------------- C25
\* C25: every operation that writes the set to localStorage because of a
\* local mutation sets lastLocalSaveTime to the time of that write, on the
\* step of the write and so before any answer of the remote.
C25_Original ==
    [][localStorage'[Editor] # localStorage[Editor] =>
          lastLocalSaveTime'[Editor] = clock]_vars

\* ---------------------------------------------------------------- C26
\* The editor's delete is waiting for the answer to a PUT or for the next
\* attempt.
DeletePending == crud.kind = "delete" /\ crud.pc \in {"put", "backoff"}

\* C26: while the remote write of a delete is pending or being retried, the
\* client's own reconciliation does not put the deleted record back into its
\* set, and no PUT of the delete carries the deleted record.
C26_Original ==
    DeletePending =>
        /\ ~Holds(announcements[Editor], crud.id)
        /\ ~Holds(localStorage[Editor], crud.id)
        /\ \A i \in 1..Len(puts[Editor]) : ~Holds(puts[Editor][i].body, crud.id)

\* ---------------------------------------------------------------- C27
\* A syncAnnouncementsFromCloud of the client ends on this step.
SyncEnds(c) == RunEnds(c) /\ Head(gets[c]).by = "syncAnnouncementsFromCloud"

\* The k-th operation of the client wrote a record while the fetch of the
\* reconciliation that now ends was in flight, and the client has not
\* touched the record since.
WrittenInFlight(c, k) ==
    /\ k > Head(gets[c]).sawOps
    /\ ops[c][k].kind \in {"create", "edit"}
    /\ \A j \in (k + 1)..Len(ops[c]) : ops[c][j].id # ops[c][k].id

\* The record is in the set with this content.
HoldsAs(anns, rec) == \E i \in 1..Len(anns) : anns[i] = rec

FetchedBySync(c) == loadFromCloud(ResponseOf(Head(gets[c]))).value

\* The fetched data holds a version of the record with a greater lastModified.
NewerFetched(c, rec) ==
    \E i \in 1..Len(FetchedBySync(c)) :
        /\ FetchedBySync(c)[i].id = rec.id
        /\ FetchedBySync(c)[i].text # ""
        /\ FetchedBySync(c)[i].lastModified > rec.lastModified

RecordsOf(anns) == { anns[i] : i \in 1..Len(anns) }

\* Client A is the only writer: the other user has done nothing.  The
\* endpoint of TwoSpec answers every request.
OnlyWriter(c) == \A d \in Clients \ {c} : ops[d] = <<>>

\* C28: with one client as the only writer and a remote that accepts every
\* request, once no call is in flight the remote document holds exactly the
\* client's current local set.
C28_Original ==
    ( /\ OnlyWriter("A")
      /\ NothingInFlight
      /\ \A c \in Clients : ~syncInProgress[c] )
    => RecordsOf(cloud) = RecordsOf(announcements["A"])

\* ---------------------------------------------------------------- C29
\* The two versions of an id each side holds once, as the call left them
\* (a missing lastModified filled in).
LocalVersion(id) == TheOne(argsAfterMerge[1], id)

CloudVersion(id) == TheOne(argsAfterMerge[2], id)

OneVersionEach(id) ==
    /\ Merged
    /\ Occurrences(localAnnouncements, id) = 1
    /\ Occurrences(cloudAnnouncements, id) = 1

GuardOf(get) == IF get.by = "enhancedSyncCheck" THEN EnhancedGuardMs ELSE GuardMs

\* A reconciliation of client c sends its GET in this step.
FetchIssued(c) == Len(gets'[c]) > Len(gets[c])

\* A run of a reconciliation ends on the write-guard branch.
SuppressedByGuard(c) == RunEnds(c) /\ syncLog'[c].outcome = "skipped"

\* C30: a reconciliation suppressed by the write-guard is skipped entirely:
\* inside the window after a local save no fetch is issued for it, and the
\* run that ends on the guard changes nothing except lastSyncTime, which it
\* sets.
C30_Original ==
    [][\A c \in Clients :
         /\ FetchIssued(c) =>
               clock - lastLocalSaveTime[c] >= GuardOf(gets'[c][Len(gets'[c])])
         /\ SuppressedByGuard(c) =>
               /\ announcements'[c] = announcements[c]
               /\ localStorage'[c] = localStorage[c]
               /\ cloud' = cloud /\ puts'[c] = puts[c]
               /\ lastLocalSaveTime'[c] = lastLocalSaveTime[c]
               /\ lastSyncTime'[c] = clock]_vars

\* ---------------------------------------------------------------- C31
\* A run of a reconciliation ends after calling mergeAnnouncements.
MergeDone(c) == RunEnds(c) /\ syncLog'[c].outcome = "merged"

\* The array the reconciliation got from its fetch.
FetchedSet(c) ==
    IF Head(gets[c]).by = "enhancedSyncCheck"
    THEN EnhancedCloudAnnouncements(Head(gets[c]).data).value.items
    ELSE FetchedBySync(c)

\* The id-sorted merged set differs from the id-sorted local set.
MergeChanges(c) ==
    SortById(mergeAnnouncements(announcements[c], FetchedSet(c), clock))
        # SortById(announcements[c])

\* C31: a reconciliation writes localStorage and invokes the UI refresh if and
\* only if the id-sorted merged set differs from the id-sorted local set; a
\* merge that changes nothing causes no persistence and no re-render.
C31_Original ==
    [][\A c \in Clients : MergeDone(c) => (syncLog'[c].applied <=> MergeChanges(c))]_vars

\* ---------------------------------------------------------------- C32
\* C32: mergeAnnouncements is a pure function: the arrays passed in as
\* localAnnouncements and cloudAnnouncements, and the records in them, are
\* after the call what they were before it.
C32_Original ==
    Merged => argsAfterMerge = <<localAnnouncements, cloudAnnouncements>>

\* ---------------------------------------------------------------- C33
\* The user's operation performed in this step, if it is an edit through the form.
EditSubmitted(id) ==
    /\ Len(ops'[Editor]) = Len(ops[Editor]) + 1
    /\ ops'[Editor][Len(ops'[Editor])] = [kind |-> "edit", id |-> id]

\* Every record but the edited one is the same record at the same place.
OthersUntouched(id) ==
    /\ Len(announcements'[Editor]) = Len(announcements[Editor])
    /\ \A i \in 1..Len(announcements[Editor]) :
          i # FirstIndex(announcements[Editor], id)
             => announcements'[Editor][i] = announcements[Editor][i]

EditedBefore(id) == TheRecord(announcements[Editor], id)

EditedAfter(id) == announcements'[Editor][FirstIndex(announcements[Editor], id)]

\* C33 as stated: an edit through handleAnnouncementSubmit keeps the id and
\* the createdAt of the record, sets its lastModified to the current time,
\* changes no other record and leaves the number of records as it was.
C33_Original ==
    [][\A id \in SysIds : EditSubmitted(id) =>
          /\ OthersUntouched(id)
          /\ EditedAfter(id).id = id
          /\ EditedAfter(id).createdAt = EditedBefore(id).createdAt
          /\ EditedAfter(id).lastModified = clock]_vars

\* C33: an edit through handleAnnouncementSubmit keeps the id, keeps the
\* createdAt the record has (a record that has none gets the current time),
\* sets lastModified to the current time, changes no other record and leaves
\* the number of records as it was.
C33_EditKeepsIdentity ==
    [][\A id \in SysIds : EditSubmitted(id) =>
          /\ OthersUntouched(id)
          /\ EditedAfter(id).id = id
          /\ EditedAfter(id).createdAt =
                (IF EditedBefore(id).createdAt # 0 THEN EditedBefore(id).createdAt ELSE clock)
          /\ EditedAfter(id).lastModified = clock]_vars

\* The second of two announcements was edited: it kept its createdAt and
\* carries the time of the edit, and the first is as it was loaded.
C33_Witness ==
    /\ ops[Editor] = << [kind |-> "edit", id |-> "a3"] >>
    /\ crud.handler = "direct"
    /\ Len(announcements[Editor]) = 2
    /\ announcements[Editor][1] = Rec("a1", "old", FarEndMs, 1, 0)
    /\ announcements[Editor][2].id = "a3"
    /\ announcements[Editor][2].text = Editor
    /\ announcements[Editor][2].createdAt = 1
    /\ announcements[Editor][2].lastModified = clock

\* ---------------------------------------------------------------- C34
\* Every record of the set that carries a lastModified has it at or after
\* its createdAt.
StampsOrdered(anns) ==
    \A i \in 1..Len(anns) :
        anns[i].lastModified # 0 => anns[i].lastModified >= anns[i].createdAt

\* C34: in every reachable state of every client and of the remote document
\* each record satisfies lastModified >= createdAt, after any sequence of
\* creates, edits and merges by any set of clients.
C34_Original ==
    /\ StampsOrdered(cloud)
    /\ \A c \in Clients : StampsOrdered(announcements[c]) /\ StampsOrdered(localStorage[c])

\* ---------------------------------------------------------------- C35
\* C35: the output of mergeAnnouncements holds at most one record per id,
\* whatever the inputs: the same id on both sides, or more than once on one
\* side.
C35_UniqueIds == Merged => DistinctIds(mergedAnnouncements)

\* The local side held one id twice and the cloud side held it too: one
\* record came back.
C35_Witness ==
    /\ Merged
    /\ Len(localAnnouncements) = 2 /\ Len(cloudAnnouncements) = 1
    /\ localAnnouncements[1].id = localAnnouncements[2].id
    /\ cloudAnnouncements[1].id = localAnnouncements[1].id
    /\ cloudAnnouncements[1].text = "C"
    /\ Len(mergedAnnouncements) = 1

\* ---------------------------------------------------------------- C36
\* C36: every client reads from and writes to the one configured remote
\* document for its whole lifetime: no save, failure or retry changes
\* cloudSyncUrl or creates another remote document.
C36_Original ==
    /\ \A c \in Clients : cloudSyncUrl[c] = ConfiguredUrl
    /\ createdBins = <<>>

\* ---------------------------------------------------------------- C37
\* The step is the endpoint handling a PUT of client c that a save sent.
PutHandled(c) ==
    /\ puts[c] # <<>> /\ Head(puts[c]).st = "sent"
    /\ cloud' = Head(puts[c]).body
    /\ Len(putLog') = Len(putLog) + 1

InFlight(c) == Len(gets[c]) + Len(puts[c])

\* The operation that set the flag ends in this step.
OwnerEnds(c) ==
    \/ gets[c] # <<>> /\ gets'[c] = <<>> /\ puts'[c] = puts[c]
    \/ puts[c] # <<>> /\ puts'[c] = <<>> /\ gets'[c] = gets[c]

\* A save or a reconciliation of client c starts in this step and finds the
\* flag set.
FoundFlagSet(c) ==
    /\ syncInProgress[c]
    /\ \/ Len(ops'[c]) > Len(ops[c])
       \/ callDropped'[c] # callDropped[c]

\* C38: syncInProgress is true exactly while one remote operation of the
\* client is in flight; it is cleared only by the operation that set it, and
\* a save or reconciliation that found it true sends nothing and leaves it true.
C38_FlagTracksFlight ==
    /\ [](\A c \in Clients : InFlight(c) <= 1 /\ (syncInProgress[c] <=> InFlight(c) = 1))
    /\ [][\A c \in Clients :
            /\ (syncInProgress[c] /\ ~syncInProgress'[c]) => OwnerEnds(c)
            /\ FoundFlagSet(c) =>
                  (syncInProgress'[c] /\ gets'[c] = gets[c] /\ puts'[c] = puts[c])]_vars

\* The user saved while a reconciliation was waiting for its GET: nothing
\* was sent for the save and the flag is still the reconciliation's.
C38_Witness ==
    /\ syncInProgress["A"]
    /\ Len(gets["A"]) = 1 /\ Head(gets["A"]).st = "sent" /\ Head(gets["A"]).sawOps = 0
    /\ puts["A"] = <<>> /\ putLog = <<>>
    /\ Len(ops["A"]) = 1
    /\ lastLocalSaveTime["A"] = clock

\* ---------------------------------------------------------------- C39
\* A script is loaded in this step.
ScriptLoaded == scriptsRun' # scriptsRun

\* C39: loading a script marked as disabled changes nothing: the dashboard's
\* methods and cloud configuration, its timers, localStorage and the remote
\* document are after the script ran what they were before, and no request
\* is sent.
C39_Original ==
    [][ScriptLoaded =>
          /\ patchedMethods' = patchedMethods
          /\ cloudSyncEnabled' = cloudSyncEnabled /\ cloudSyncUrl' = cloudSyncUrl
          /\ syncTimers' = syncTimers
          /\ localStorage' = localStorage
          /\ cloud' = cloud
          /\ gets' = gets /\ puts' = puts]_vars

====
